---- MODULE Spec2Model ----
(***************************************************************************)
(* Workspace task runner of bank-kit (turbo-sdk.ts and its earlier lib     *)
(* variant, both in packages/registry/src/complex-component/page.tsx):     *)
(* the construction of a TurboSDK and its task dispatcher runTask /         *)
(* runTaskSync, the root resolver findMonorepoRoot, the workspace          *)
(* enumerator getWorkspaces and the task catalog listTasks, the two        *)
(* command-line drivers and runTask calls in progress at once; and, from   *)
(* the rest of the repository, the registry API server                     *)
(* (apps/api/src/server.ts), the waitlist server action joinWaitlist       *)
(* (packages/ui/src/waitlist/waitlist-form.tsx) and the Searchbar          *)
(* component (packages/ui/src/components/searchbar.tsx).                   *)
(*                                                                         *)
(* Texts the program parses as JSON are sequences of lexical tokens;       *)
(* paths and globs are sequences of one-character strings.                 *)
(***************************************************************************)
EXTENDS Integers, Sequences, FiniteSets, TLC

VARIABLES
    inst,       \* the TurboSDK instance: "off", "none", "ready", "failed" (constructor threw)
    turbo,      \* root/node_modules/.bin/turbo exists
    pc,         \* dispatcher call: "idle", "reading", "awaitExit", "blocked", "done"
    req,        \* the TaskRunRequest of the call in progress, with its mode
    argv,       \* argument vector of the child of the call in progress
    child,      \* the orchestrator child process of the call in progress
    result,     \* what the call returned (or that it threw)
    outText,    \* stdout text the asynchronous call has read to end-of-stream
    spawned,    \* children spawned so far by this TurboSDK instance
    calls,      \* calls completed so far by this TurboSDK instance
    raised,     \* calls among them that raised instead of returning a result
    wpc,        \* findMonorepoRoot: "off", "start", "walk", "returned", "failed", "threw"
    wvariant,   \* which findMonorepoRoot runs: "sdk" (turbo-sdk.ts) or "lib" (earlier)
    wstart,     \* startDir (sdk) or process.cwd() (lib)
    wfs,        \* the directories from startDir up to the root: marker and manifest
    wdir,       \* the directory the walk is at
    wres,       \* the path findMonorepoRoot returned
    wvisited,   \* directories whose loop iteration has run, in order
    wconsulted, \* directories whose manifest the walk has read
    gpc,        \* getWorkspaces: "off", "start", "expand", "done", "threw"
    gvariant,   \* which getWorkspaces runs: "sdk" (turbo-sdk.ts) or "lib" (earlier)
    gmanifest,  \* the root manifest root/package.json
    gfs,        \* directories under the root: what readdirSync lists in each
    gres,       \* the sequence getWorkspaces returned
    tpc,        \* listTasks: "off", "idle", "loop", "done", "threw"
    tmembers,   \* the workspaces argument of listTasks
    tmanifests, \* the package.json of each member of the argument
    ti,         \* index of the member the loop of listTasks is at
    tcatalog,   \* the Map of listTasks: its entries in insertion order
    tout,       \* the lines listTasks has printed
    cli,        \* one run of the command-line driver: its arguments, position, exit
    flight,     \* runTask calls in progress at once on one instance, by caller
    search,     \* one mounted Searchbar: props, displayed value, timers, callbacks made
    api,        \* the registry API server: item files, request in progress, response
    wait        \* the waitlist: stored e-mails, mail sent, joinWaitlist in progress

dispVars == <<inst, turbo, pc, req, argv, child, result, outText, spawned, calls, raised>>

rootVars == <<wpc, wvariant, wstart, wfs, wdir, wres, wvisited, wconsulted>>

wsVars == <<gpc, gvariant, gmanifest, gfs, gres>>

taskVars == <<tpc, tmembers, tmanifests, ti, tcatalog, tout>>

\* everything outside the dispatcher, outside the root resolver, outside
\* the workspace enumerator, and outside the task catalog and the enumerator
dispOthers == <<rootVars, wsVars, taskVars, cli, flight, search, api, wait>>
rootOthers == <<dispVars, wsVars, taskVars, cli, flight, search, api, wait>>
wsOthers == <<dispVars, rootVars, taskVars, cli, flight, search, api, wait>>
taskOthers == <<dispVars, rootVars, cli, flight, search, api, wait>>
cliOthers == <<rootVars, wsVars, taskVars, flight, search, api, wait>>
flightOthers == <<dispVars, rootVars, wsVars, taskVars, cli, search, api, wait>>
searchOthers == <<dispVars, rootVars, wsVars, taskVars, cli, flight, api, wait>>
apiOthers == <<dispVars, rootVars, wsVars, taskVars, cli, flight, search, wait>>
waitOthers == <<dispVars, rootVars, wsVars, taskVars, cli, flight, search, api>>

\* the parts of the repository a specification leaves out
CliOff == cli = "off"
FlightOff == flight = "off"
SearchOff == search = "off"
ApiOff == api = "off"
WaitOff == wait = "off"

vars == <<inst, turbo, pc, req, argv, child, result, outText, spawned, calls, raised,
          wpc, wvariant, wstart, wfs, wdir, wres, wvisited, wconsulted,
          gpc, gvariant, gmanifest, gfs, gres,
          tpc, tmembers, tmanifests, ti, tcatalog, tout,
          cli, flight, search, api, wait>>

-----------------------------------------------------------------------------
(* Bounds *)

\* calls made on one TurboSDK instance
MaxCalls == 2
\* largest exit code a child returns
MaxExit == 1
\* deepest start directory of a root resolution (levels below "/")
MaxDepth == 2
\* longest workspaces list of a root manifest
MaxGlobs == 2
\* longest workspaces argument of a direct call of listTasks
MaxMembers == 3
\* requests the registry API server answers
MaxRequests == 2
\* calls of joinWaitlist
MaxJoins == 2
\* input changes typed into one Searchbar
MaxChanges == 2
\* renders of one Searchbar with a new onChange or debounceTime
MaxRenders == 1

-----------------------------------------------------------------------------
(* JSON texts as token sequences, and JSON.parse on them *)

\* the JS value undefined (no JSON value is the empty token sequence)
Undefined == <<>>

JTrue == <<"true">>
JFalse == <<"false">>
JNull == <<"null">>
JEmptyArray == <<"[", "]">>

WsTok == " "
StringToks == {"success", "tasks", "t", "name", "workspaces", "a/*"}
ScalarToks == {"true", "false", "null", "1", "0"} \cup StringToks

\* JSON.parse skips insignificant whitespace between tokens
StripWs(text) == SelectSeq(text, LAMBDA t : t # WsTok)

RECURSIVE ValueEnd(_, _)
RECURSIVE ElemsEnd(_, _, _)
RECURSIVE MembersEnd(_, _, _)

\* Index just after the JSON value that starts at s[i]; 0 when there is none
\* (a SyntaxError).
ValueEnd(s, i) ==
    IF i > Len(s) THEN 0
    ELSE IF s[i] \in ScalarToks THEN i + 1
    ELSE IF s[i] = "[" THEN ElemsEnd(s, i + 1, TRUE)
    ELSE IF s[i] = "{" THEN MembersEnd(s, i + 1, TRUE)
    ELSE 0

ElemsEnd(s, i, first) ==
    IF i > Len(s) THEN 0
    ELSE IF first /\ s[i] = "]" THEN i + 1
    ELSE LET e == ValueEnd(s, i)
         IN  IF e = 0 \/ e > Len(s) THEN 0
             ELSE IF s[e] = "]" THEN e + 1
             ELSE IF s[e] = "," THEN ElemsEnd(s, e + 1, FALSE)
             ELSE 0

MembersEnd(s, i, first) ==
    IF i > Len(s) THEN 0
    ELSE IF first /\ s[i] = "}" THEN i + 1
    ELSE IF s[i] \notin StringToks THEN 0
    ELSE IF i + 1 > Len(s) \/ s[i + 1] # ":" THEN 0
    ELSE LET e == ValueEnd(s, i + 2)
         IN  IF e = 0 \/ e > Len(s) THEN 0
             ELSE IF s[e] = "}" THEN e + 1
             ELSE IF s[e] = "," THEN MembersEnd(s, e + 1, FALSE)
             ELSE 0

\* JSON.parse(text): ok with the value (its tokens without whitespace), or a
\* SyntaxError.  The whole text must be one value.
JSONparse(text) ==
    LET s == StripWs(text)
    IN  IF Len(s) > 0 /\ ValueEnd(s, 1) = Len(s) + 1
        THEN [ok |-> TRUE, v |-> s]
        ELSE [ok |-> FALSE, v |-> Undefined]

RECURSIVE Lookup(_, _, _, _)
\* Scan the members of object v from index i (a key, or the closing brace);
\* a later member of the same name replaces an earlier one.
Lookup(v, i, key, acc) ==
    IF i > Len(v) \/ v[i] = "}" THEN acc
    ELSE LET e == ValueEnd(v, i + 2)
             val == SubSeq(v, i + 2, e - 1)
         IN  Lookup(v, e + 1, key, IF v[i] = key THEN val ELSE acc)

\* v.key for a parsed value v that is not null: the member of an object,
\* undefined for an object without it and for every non-object.
Get(v, key) ==
    IF v[1] = "{" THEN Lookup(v, 2, key, Undefined) ELSE Undefined

\* JS truthiness of a JSON value (or undefined)
Truthy(v) == v \notin {Undefined, JFalse, JNull, <<"0">>}

-----------------------------------------------------------------------------
(* Paths: strings of one-character strings; node:path on POSIX *)

\* path.sep
Sep == "/"
RootDir == <<Sep>>
Dot == <<".">>
DotDot == <<".", ".">>

RECURSIVE Split(_, _)
\* s.split(sep)
Split(s, sep) ==
    IF \A i \in 1..Len(s) : s[i] # sep THEN <<s>>
    ELSE LET k == CHOOSE i \in 1..Len(s) :
                      s[i] = sep /\ \A j \in 1..(i - 1) : s[j] # sep
         IN  <<SubSeq(s, 1, k - 1)>> \o Split(SubSeq(s, k + 1, Len(s)), sep)

RECURSIVE Join(_, _)
\* segs.join(sep)
Join(segs, sep) ==
    IF Len(segs) = 0 THEN <<>>
    ELSE IF Len(segs) = 1 THEN segs[1]
    ELSE segs[1] \o <<sep>> \o Join(Tail(segs), sep)

\* xs.slice(0, -1)
SliceButLast(xs) == SubSeq(xs, 1, Len(xs) - 1)

RECURSIVE NormSegs(_, _, _, _)
\* path.normalize on the segments: "" and "." are dropped, ".." takes the
\* segment before it (at the root of an absolute path it is dropped)
NormSegs(segs, i, stack, abs) ==
    IF i > Len(segs) THEN stack
    ELSE LET seg == segs[i]
         IN  IF seg = <<>> \/ seg = Dot THEN NormSegs(segs, i + 1, stack, abs)
             ELSE IF seg = DotDot
             THEN IF Len(stack) > 0 /\ stack[Len(stack)] # DotDot
                  THEN NormSegs(segs, i + 1, SliceButLast(stack), abs)
                  ELSE IF abs THEN NormSegs(segs, i + 1, stack, abs)
                  ELSE NormSegs(segs, i + 1, Append(stack, seg), abs)
             ELSE NormSegs(segs, i + 1, Append(stack, seg), abs)

IsAbsolute(p) == Len(p) > 0 /\ p[1] = Sep

\* path.normalize(p)
Normalize(p) ==
    LET abs == IsAbsolute(p)
        trailing == Len(p) > 0 /\ p[Len(p)] = Sep
        body == Join(NormSegs(Split(p, Sep), 1, <<>>, abs), Sep)
    IN  IF body = <<>> THEN (IF abs THEN RootDir ELSE Dot)
        ELSE (IF abs THEN <<Sep>> ELSE <<>>) \o body
             \o (IF trailing THEN <<Sep>> ELSE <<>>)

\* path.join(a, b): the non-empty parts joined by the separator, normalized
PathJoin(a, b) ==
    IF a = <<>> THEN Normalize(b)
    ELSE IF b = <<>> THEN Normalize(a)
    ELSE Normalize(a \o <<Sep>> \o b)

\* path.resolve(p) for an absolute p: normalized, without trailing separator
PathResolve(p) ==
    LET n == Normalize(p)
    IN  IF Len(n) > 1 /\ n[Len(n)] = Sep THEN SliceButLast(n) ELSE n

-----------------------------------------------------------------------------
(* findMonorepoRoot: turbo-sdk.ts and the earlier lib variant *)

\* package.json texts found on the way up
ManifestGarbage == <<"{", "name", ":">>
ManifestNull == JNull
ManifestNoWorkspaces == <<"{", WsTok, "name", ":", WsTok, "t", WsTok, "}">>
ManifestEmptyWorkspaces ==
    <<"{", "name", ":", "t", ",", WsTok, "workspaces", ":", WsTok, "[", "]", "}">>
ManifestWorkspaces == <<"{", "workspaces", ":", WsTok, "[", "a/*", "]", "}">>

ManifestTexts ==
    {ManifestGarbage, ManifestNull, ManifestNoWorkspaces,
     ManifestEmptyWorkspaces, ManifestWorkspaces}

NoFile == [exists |-> FALSE, text |-> <<>>]
File(text) == [exists |-> TRUE, text |-> text]
Manifests == {NoFile} \cup {File(t) : t \in ManifestTexts}

\* what one directory holds: the marker turbo.json, and package.json
DirEntries == [turbo : BOOLEAN, pkg : Manifests]
NoEntries == [turbo |-> FALSE, pkg |-> NoFile]

RECURSIVE DirAtDepth(_)
\* the directory n levels below the root
DirAtDepth(n) ==
    IF n = 0 THEN RootDir
    ELSE IF n = 1 THEN <<Sep, "a">>
    ELSE DirAtDepth(n - 1) \o <<Sep, "a">>

\* process.cwd(), or an absolute startDir without or with a trailing separator
StartDirs(variant) ==
    {DirAtDepth(n) : n \in 0..MaxDepth}
    \cup (IF variant = "sdk"
          THEN {DirAtDepth(n) \o <<Sep>> : n \in 1..MaxDepth}
          ELSE {})

\* the directories from dir up to the filesystem root
PathToRoot(dir) ==
    {RootDir} \cup {SubSeq(dir, 1, k) : k \in {j \in 2..Len(dir) :
                                               j = Len(dir) \/ dir[j + 1] = Sep}}

\* existsSync / Bun.file(...).exists() and the file text at directory d
FsAt(fs, d) == IF d \in DOMAIN fs THEN fs[d] ELSE NoEntries

\* Variant of ParentDir without the "|| path.sep" fallback.
ParentDirNoFallback(dir) == Join(SliceButLast(Split(dir, Sep)), Sep)

\* dir.split(path.sep).slice(0, -1).join(path.sep) || path.sep
ParentDir(dir) ==
    LET j == Join(SliceButLast(Split(dir, Sep)), Sep)
    IN  IF j = <<>> THEN RootDir ELSE j

\* join(currentDir, "..")
LibParentDir(dir) == PathJoin(dir, DotDot)

Outcome(kind, dir, consulted) == [kind |-> kind, dir |-> dir, consulted |-> consulted]

\* Variant of FindRootIteration that reads the manifest before it looks for
\* the marker.
FindRootIterationManifestFirst(dir, entries, parent) ==
    LET p == JSONparse(entries.pkg.text)
        up == IF parent = dir THEN Outcome("failed", dir, entries.pkg.exists)
              ELSE Outcome("walk", parent, entries.pkg.exists)
    IN  IF entries.pkg.exists /\ (~p.ok \/ p.v = JNull) THEN Outcome("threw", dir, TRUE)
        ELSE IF entries.pkg.exists /\ Truthy(Get(p.v, "workspaces"))
        THEN Outcome("returned", dir, TRUE)
        ELSE IF entries.turbo THEN Outcome("returned", dir, entries.pkg.exists)
        ELSE up

\* One iteration of the while (true) loop at dir, whose entries are given:
\*   if (existsSync(turboJson)) return dir;
\*   if (existsSync(pkgJsonPath)) {
\*     const { workspaces } = await Bun.file(pkgJsonPath).json();
\*     if (workspaces) return dir; }
\*   if (parent === dir) throw new Error("Not inside a Turborepo monorepo");
\*   dir = parent;
FindRootIteration(dir, entries, parent) ==
    IF entries.turbo THEN Outcome("returned", dir, FALSE)
    ELSE LET p == JSONparse(entries.pkg.text)
             up == IF parent = dir THEN Outcome("failed", dir, entries.pkg.exists)
                   ELSE Outcome("walk", parent, entries.pkg.exists)
         IN  IF ~entries.pkg.exists THEN up
             ELSE IF ~p.ok \/ p.v = JNull THEN Outcome("threw", dir, TRUE)
             ELSE IF Truthy(Get(p.v, "workspaces")) THEN Outcome("returned", dir, TRUE)
             ELSE up

RootOff ==
    /\ wpc = "off"
    /\ wvariant = "sdk"
    /\ wstart = RootDir
    /\ wfs = [d \in {RootDir} |-> NoEntries]
    /\ wdir = <<>>
    /\ wres = <<>>
    /\ wvisited = <<>>
    /\ wconsulted = {}

RootInit ==
    /\ wpc = "start"
    /\ wvariant \in {"sdk", "lib"}
    /\ wstart \in StartDirs(wvariant)
    /\ wfs \in [PathToRoot(PathResolve(wstart)) -> DirEntries]
    /\ wdir = <<>>
    /\ wres = <<>>
    /\ wvisited = <<>>
    /\ wconsulted = {}

\* let dir = path.resolve(startDir)  /  let currentDir = process.cwd()
FindRootEnter ==
    /\ wpc = "start"
    /\ wdir' = IF wvariant = "sdk" THEN PathResolve(wstart) ELSE wstart
    /\ wpc' = "walk"
    /\ UNCHANGED <<wvariant, wstart, wfs, wres, wvisited, wconsulted>>
    /\ UNCHANGED rootOthers

\* one iteration of the loop
FindRootStep ==
    /\ wpc = "walk"
    /\ LET parent == IF wvariant = "sdk" THEN ParentDir(wdir) ELSE LibParentDir(wdir)
           o == FindRootIteration(wdir, FsAt(wfs, wdir), parent)
       IN  /\ wpc' = o.kind
           /\ wdir' = IF o.kind = "walk" THEN o.dir ELSE wdir
           /\ wres' = IF o.kind = "returned" THEN o.dir ELSE wres
           /\ wvisited' = Append(wvisited, wdir)
           /\ wconsulted' = IF o.consulted THEN wconsulted \cup {wdir} ELSE wconsulted
    /\ UNCHANGED <<wvariant, wstart, wfs>>
    /\ UNCHANGED rootOthers

RootNext ==
    \/ FindRootEnter
    \/ FindRootStep

-----------------------------------------------------------------------------
(* getWorkspaces *)

\* UTF-16 code unit of a character, the order Array.prototype.sort compares by
CharCode(c) ==
    CASE c = "*" -> 42
      [] c = "." -> 46
      [] c = "/" -> 47
      [] c = "a" -> 97
      [] c = "p" -> 112
      [] c = "q" -> 113
      [] c = "x" -> 120
      [] c = "y" -> 121

RECURSIVE StringLess(_, _)
\* a < b for strings
StringLess(a, b) ==
    IF b = <<>> THEN FALSE
    ELSE IF a = <<>> THEN TRUE
    ELSE IF a[1] = b[1] THEN StringLess(Tail(a), Tail(b))
    ELSE CharCode(a[1]) < CharCode(b[1])

RECURSIVE InsertSorted(_, _)
InsertSorted(x, sorted) ==
    IF sorted = <<>> THEN <<x>>
    ELSE IF StringLess(x, sorted[1]) THEN <<x>> \o sorted
    ELSE <<sorted[1]>> \o InsertSorted(x, Tail(sorted))

RECURSIVE SortStrings(_)
\* xs.sort(): ascending, equal strings kept
SortStrings(xs) ==
    IF xs = <<>> THEN <<>>
    ELSE InsertSorted(xs[Len(xs)], SortStrings(SliceButLast(xs)))

\* s.indexOf(pat) + 1, 0 when pat does not occur
IndexOf(s, pat) ==
    LET hits == {i \in 1..(Len(s) - Len(pat) + 1) : SubSeq(s, i, i + Len(pat) - 1) = pat}
    IN  IF hits = {} THEN 0 ELSE CHOOSE i \in hits : \A j \in hits : i <= j

\* s.replace(pat, rep) with a string pattern: the first occurrence only
ReplaceFirst(s, pat, rep) ==
    LET i == IndexOf(s, pat)
    IN  IF i = 0 THEN s
        ELSE SubSeq(s, 1, i - 1) \o rep \o SubSeq(s, i + Len(pat), Len(s))

StarSuffix == <<Sep, "*">>

\* workspaces entries of the form "<dir>/*"
StarGlob(dir) == dir \o StarSuffix

\* directories that workspaces entries name; q does not exist
BaseDirs == {<<"a">>, <<"p">>}
GlobDirs == BaseDirs \cup {<<"q">>}

StarGlobs == {StarGlob(d) : d \in GlobDirs}

\* entries of another form: a bare directory, a recursive wildcard
OtherGlobs == {<<"a">>, <<"a", Sep, "*", "*">>}

Globs == StarGlobs \cup OtherGlobs

RECURSIVE SeqsUpTo(_, _)
\* the sequences over S of length at most n
SeqsUpTo(S, n) ==
    IF n = 0 THEN {<<>>}
    ELSE LET shorter == SeqsUpTo(S, n - 1)
         IN  shorter \cup {Append(q, x) : q \in shorter, x \in S}

\* root/package.json: missing, not valid JSON, an object without a workspaces
\* field, an object whose workspaces field is itself an object
\* ({"packages": [...]}), or an object whose workspaces field is a list of globs
RootManifests ==
    {[kind |-> k, globs |-> <<>>] : k \in {"missing", "invalid", "noWorkspaces", "object"}}
    \cup {[kind |-> "list", globs |-> g] : g \in SeqsUpTo(Globs, MaxGlobs)}

\* a directory entry as readdirSync(abs, {withFileTypes: true}) gives it:
\* a file, a directory, or a directory holding a package.json
EntryKinds == {"file", "dir", "pkgdir"}
Entry(name, kind) == [name |-> name, kind |-> kind]

\* listings of a directory over the given entry names, in every order
Listings(names) ==
    {q \in SeqsUpTo({Entry(n, k) : n \in names, k \in EntryKinds}, Cardinality(names)) :
        \A i, j \in 1..Len(q) : i # j => q[i].name # q[j].name}

\* the trees under the root: each base directory is absent or has a listing
Trees ==
    {[d \in D |-> IF d = <<"a">> THEN la ELSE lp] :
        D \in SUBSET BaseDirs,
        la \in Listings({<<"x">>, <<"y">>}),
        lp \in Listings({<<"x">>})}

RECURSIVE CandidatesNoManifestCheck(_, _, _)
\* Variant of Candidates that takes every subdirectory, with or without a
\* package.json.
CandidatesNoManifestCheck(base, listing, i) ==
    IF i > Len(listing) THEN <<>>
    ELSE (IF listing[i].kind = "file" THEN <<>>
          ELSE <<PathJoin(base, listing[i].name)>>)
         \o CandidatesNoManifestCheck(base, listing, i + 1)

RECURSIVE Candidates(_, _, _)
\* for (const entry of readdirSync(abs, { withFileTypes: true })) {
\*   if (!entry.isDirectory()) continue;
\*   const candidate = path.join(base, entry.name);
\*   if (existsSync(path.join(root, candidate, "package.json"))) dirs.push(candidate); }
Candidates(base, listing, i) ==
    IF i > Len(listing) THEN <<>>
    ELSE (IF listing[i].kind = "file" THEN <<>>
          ELSE IF listing[i].kind = "pkgdir" THEN <<PathJoin(base, listing[i].name)>>
          ELSE <<>>)
         \o Candidates(base, listing, i + 1)

\* the body of the loop over the globs:
\*   const base = glob.replace("/*", "");
\*   const abs = path.join(root, base);
\*   if (!existsSync(abs)) continue;
ExpandGlob(glob, fs) ==
    LET base == ReplaceFirst(glob, StarSuffix, <<>>)
        abs == Normalize(base)
    IN  IF abs \notin DOMAIN fs THEN <<>>
        ELSE Candidates(base, fs[abs], 1)

RECURSIVE ExpandGlobs(_, _, _)
ExpandGlobs(globs, fs, i) ==
    IF i > Len(globs) THEN <<>>
    ELSE ExpandGlob(globs[i], fs) \o ExpandGlobs(globs, fs, i + 1)

\* const { workspaces = [] } = ...json(): the list, [] when the field is absent
WorkspacesOf(manifest) == IF manifest.kind = "list" THEN manifest.globs ELSE <<>>

\* what the loops of getWorkspaces come to: the directories pushed, or a throw
Pushed(dirs) == [threw |-> FALSE, dirs |-> dirs]
Threw == [threw |-> TRUE, dirs |-> <<>>]

\* turbo-sdk.ts: for (const glob of workspaces) { ... } return dirs.sort();
\* for...of over a workspaces field that is an object raises a TypeError
SdkExpansion(manifest, fs) ==
    IF manifest.kind = "object" THEN Threw
    ELSE Pushed(SortStrings(ExpandGlobs(WorkspacesOf(manifest), fs, 1)))

\* the earlier lib variant, the body of its loop over the globs:
\*   const [dir, pattern] = glob.split("/");
\*   if (pattern === "*") {
\*     const dirs = await readdir(join(root, dir), { withFileTypes: true });
\* readdir rejects (ENOENT) when root/<dir> does not exist
LibExpandGlob(glob, fs) ==
    LET parts == Split(glob, Sep)
        dir == parts[1]
        pattern == IF Len(parts) >= 2 THEN parts[2] ELSE Undefined
    IN  IF pattern # <<"*">> THEN Pushed(<<>>)
        ELSE IF Normalize(dir) \notin DOMAIN fs THEN Threw
        ELSE Pushed(Candidates(dir, fs[Normalize(dir)], 1))

RECURSIVE LibExpandGlobs(_, _, _)
LibExpandGlobs(globs, fs, i) ==
    IF i > Len(globs) THEN Pushed(<<>>)
    ELSE LET head == LibExpandGlob(globs[i], fs)
             rest == LibExpandGlobs(globs, fs, i + 1)
         IN  IF head.threw \/ rest.threw THEN Threw
             ELSE Pushed(head.dirs \o rest.dirs)

\* the earlier lib variant: for (const glob of workspaceGlobs) { ... }
\* return workspaces;
LibExpansion(manifest, fs) ==
    IF manifest.kind = "object" THEN Threw
    ELSE LibExpandGlobs(WorkspacesOf(manifest), fs, 1)

\* Variant of ReadRootManifest that takes a manifest it cannot read for {}.
ReadRootManifestLenient(manifest) == "expand"

\* await Bun.file(path.join(root, "package.json")).json()  (turbo-sdk.ts)
\* JSON.parse(await Bun.file(packageJsonPath).text())       (lib)
\* both reject when the file is missing or its text is not JSON
ReadRootManifest(manifest) ==
    IF manifest.kind \in {"missing", "invalid"} THEN "threw" ELSE "expand"

WsOff ==
    /\ gpc = "off"
    /\ gvariant = "sdk"
    /\ gmanifest = [kind |-> "missing", globs |-> <<>>]
    /\ gfs = <<>>
    /\ gres = <<>>

WsInit ==
    /\ gpc = "start"
    /\ gvariant \in {"sdk", "lib"}
    /\ gmanifest \in RootManifests
    /\ gfs \in Trees
    /\ gres = <<>>

\* getWorkspaces up to the end of its read of the root manifest
GetWorkspacesRead ==
    /\ gpc = "start"
    /\ gpc' = ReadRootManifest(gmanifest)
    /\ UNCHANGED <<gvariant, gmanifest, gfs, gres>>
    /\ UNCHANGED wsOthers

\* the rest of getWorkspaces: the loop over the globs and the return (the
\* tree under the root does not change while the lib variant awaits)
GetWorkspacesExpand ==
    /\ gpc = "expand"
    /\ LET out == IF gvariant = "sdk" THEN SdkExpansion(gmanifest, gfs)
                  ELSE LibExpansion(gmanifest, gfs)
       IN  /\ gres' = out.dirs
           /\ gpc' = IF out.threw THEN "threw" ELSE "done"
    /\ UNCHANGED <<gvariant, gmanifest, gfs>>
    /\ UNCHANGED wsOthers

WsNext ==
    \/ GetWorkspacesRead
    \/ GetWorkspacesExpand

-----------------------------------------------------------------------------
(* listTasks: the catalog of tasks over the members *)

\* the members a direct call of listTasks is given
MemberPaths == {<<"a", Sep, "x">>, <<"a", Sep, "y">>, <<"p", Sep, "x">>}

\* the keys of a member's scripts object, in the order Object.keys gives them
ScriptLists == {<<"build">>, <<"build", "test">>, <<"test", "build">>}

\* a member's package.json: missing, not valid JSON, an object without a
\* scripts field, or an object with scripts
MemberManifests ==
    {[kind |-> k, scripts |-> <<>>] : k \in {"missing", "invalid", "noScripts"}}
    \cup {[kind |-> "scripts", scripts |-> q] : q \in ScriptLists}

\* the manifest makes Bun.file(...).json() reject
Unreadable(manifest) == manifest.kind \in {"missing", "invalid"}

\* Object.keys(pkg.scripts ?? {})
ScriptNames(manifest) == IF manifest.kind = "scripts" THEN manifest.scripts ELSE <<>>

\* one line of the catalog: a task name and the members that declare it
Line(name, pkgs) == [name |-> name, pkgs |-> pkgs]

\* tasks.get(name): the index of the entry of that name, 0 when there is none
MapIndex(map, name) ==
    IF \E i \in 1..Len(map) : map[i].name = name
    THEN CHOOSE i \in 1..Len(map) : map[i].name = name
    ELSE 0

\* Variant of MapPush that starts the list of the task afresh at every member.
MapPushOverwriting(map, name, ws) ==
    IF MapIndex(map, name) = 0 THEN Append(map, Line(name, <<ws>>))
    ELSE [map EXCEPT ![MapIndex(map, name)].pkgs = <<ws>>]

\* (tasks.get(name) ?? tasks.set(name, []).get(name))?.push(ws)
MapPush(map, name, ws) ==
    IF MapIndex(map, name) = 0 THEN Append(map, Line(name, <<ws>>))
    ELSE [map EXCEPT ![MapIndex(map, name)].pkgs = Append(@, ws)]

RECURSIVE PushScripts(_, _, _, _)
\* for (const name of Object.keys(pkg.scripts ?? {})) { ... push(ws) }
PushScripts(map, names, ws, i) ==
    IF i > Len(names) THEN map
    ELSE PushScripts(MapPush(map, names[i], ws), names, ws, i + 1)

\* Variant of ListTasksIteration that passes over a member whose manifest it
\* cannot read.
ListTasksIterationSkipping(map, ws, manifest) ==
    [threw |-> FALSE, map |-> PushScripts(map, ScriptNames(manifest), ws, 1)]

\* one iteration of the loop over the members:
\*   const pkg = await Bun.file(path.join(root, ws, "package.json")).json();
\*   for (const name of Object.keys(pkg.scripts ?? {})) ...
\* the await is inside no try, so a rejection leaves listTasks
ListTasksIteration(map, ws, manifest) ==
    IF Unreadable(manifest) THEN [threw |-> TRUE, map |-> map]
    ELSE [threw |-> FALSE, map |-> PushScripts(map, ScriptNames(manifest), ws, 1)]

\* console.info("Available tasks:"); then one line for each entry of the Map
Printed(map) == <<Line("Available tasks:", <<>>)>> \o map

TasksOff ==
    /\ tpc = "off"
    /\ tmembers = <<>>
    /\ tmanifests = <<>>
    /\ ti = 0
    /\ tcatalog = <<>>
    /\ tout = <<>>

TasksInit ==
    /\ tpc = "idle"
    /\ tmembers = <<>>
    /\ tmanifests = <<>>
    /\ ti = 0
    /\ tcatalog = <<>>
    /\ tout = <<>>

\* listTasks(root, workspaces) called with a list of the caller's own
ListTasksCall ==
    /\ tpc = "idle"
    /\ gpc = "off"
    /\ \E ms \in SeqsUpTo(MemberPaths, MaxMembers) :
         \E mf \in [{ms[i] : i \in 1..Len(ms)} -> MemberManifests] :
            /\ tmembers' = ms
            /\ tmanifests' = mf
    /\ tpc' = "loop"
    /\ ti' = 1
    /\ UNCHANGED <<tcatalog, tout>>
    /\ UNCHANGED wsVars
    /\ UNCHANGED taskOthers

\* listTasks(sdk.root, await getWorkspaces(sdk.root)): every member
\* getWorkspaces returned has a package.json, readable or not
ListTasksOfWorkspaces ==
    /\ tpc = "idle"
    /\ gpc = "done"
    /\ tmembers' = gres
    /\ tmanifests' \in [{gres[i] : i \in 1..Len(gres)} ->
                            {mf \in MemberManifests : mf.kind # "missing"}]
    /\ tpc' = "loop"
    /\ ti' = 1
    /\ UNCHANGED <<tcatalog, tout>>
    /\ UNCHANGED wsVars
    /\ UNCHANGED taskOthers

\* one iteration of for (const ws of workspaces), up to its await and on
ListTasksMember ==
    /\ tpc = "loop"
    /\ ti <= Len(tmembers)
    /\ LET out == ListTasksIteration(tcatalog, tmembers[ti], tmanifests[tmembers[ti]])
       IN  /\ tcatalog' = out.map
           /\ tpc' = IF out.threw THEN "threw" ELSE "loop"
           /\ ti' = IF out.threw THEN ti ELSE ti + 1
    /\ UNCHANGED <<tmembers, tmanifests, tout>>
    /\ UNCHANGED wsVars
    /\ UNCHANGED taskOthers

\* after the loop: the header and one line for each task
ListTasksPrint ==
    /\ tpc = "loop"
    /\ ti > Len(tmembers)
    /\ tout' = Printed(tcatalog)
    /\ tpc' = "done"
    /\ UNCHANGED <<tmembers, tmanifests, ti, tcatalog>>
    /\ UNCHANGED wsVars
    /\ UNCHANGED taskOthers

TasksNext ==
    \/ GetWorkspacesRead
    \/ GetWorkspacesExpand
    \/ ListTasksCall
    \/ ListTasksOfWorkspaces
    \/ ListTasksMember
    \/ ListTasksPrint

-----------------------------------------------------------------------------
(* The orchestrator child process: what it may print *)

RECURSIVE RenderMembers(_, _)
RenderMembers(ms, i) ==
    IF i > Len(ms) THEN <<>>
    ELSE <<ms[i][1], ":", WsTok>> \o ms[i][2]
         \o (IF i < Len(ms) THEN <<",", WsTok>> ELSE <<>>)
         \o RenderMembers(ms, i + 1)

\* a JSON object printed member by member
RenderObject(ms) == <<"{">> \o RenderMembers(ms, 1) \o <<"}">>

TaskList == <<"[", "{", "name", ":", "t", "}", "]">>

ObjectReport(ms) == [object |-> TRUE, members |-> ms, text |-> RenderObject(ms)]
RawReport(toks) == [object |-> FALSE, members |-> <<>>, text |-> toks]

\* The reports a child may set out to print: objects with and without the two
\* fields, JSON values that are no object, and texts that are no JSON.
ReportPlans ==
    { ObjectReport(<< <<"success", JTrue>>, <<"tasks", TaskList>> >>),
      ObjectReport(<< <<"success", JFalse>>, <<"tasks", JEmptyArray>> >>),
      ObjectReport(<< <<"tasks", TaskList>>, <<"success", JFalse>> >>),
      ObjectReport(<< <<"success", JTrue>> >>),
      ObjectReport(<< <<"tasks", TaskList>> >>),
      RawReport(JNull),
      RawReport(<<"1">>),
      RawReport(<<"log">>),
      RawReport(<<>>),
      RawReport(RenderObject(<< <<"success", JTrue>>, <<"tasks", JEmptyArray>> >>)
                \o <<"log">>) }

\* the value the report gives field key (undefined when it has none)
ReportField(plan, key) ==
    LET idx == {i \in 1..Len(plan.members) : plan.members[i][1] = key}
    IN  IF idx = {} THEN Undefined
        ELSE plan.members[CHOOSE i \in idx : \A j \in idx : j <= i][2]

ExitCodes == 0..MaxExit

\* proc.exitCode: <<n>> after exit(n), <<>> (null) after a kill by signal
Exited(n) == <<n>>
Signalled == <<>>

NoChild == [st |-> "none", plan |-> RawReport(<<>>), out |-> <<>>,
            exit |-> Signalled, timedOut |-> FALSE]

-----------------------------------------------------------------------------
(* TurboSDK.runTask and TurboSDK.runTaskSync *)

Tasks == {"build", ""}
\* opts.filter: <<>> when not given, else <<the string>>
Filters == {<<>>, <<"docs">>, <<"">>}

NoRequest == [mode |-> "none", task |-> "", filter |-> <<>>, timeout |-> FALSE]

NoResult == [kind |-> "none", success |-> Undefined, tasks |-> Undefined]
Thrown == [kind |-> "throw", success |-> Undefined, tasks |-> Undefined]
Value(s, t) == [kind |-> "value", success |-> s, tasks |-> t]
\* { success: false, tasks: [] }
FailedResult == Value(JFalse, JEmptyArray)

FilterGiven(filter) == filter # <<>> /\ filter[1] # ""

\* Variant of RunTaskArgv that pushes the flag for every filter the request
\* carries, the empty string included.
RunTaskArgvEveryFilter(task, filter) ==
    <<"bunx", "turbo", "run", task, "--output-logs=json", "--color=always">>
    \o (IF filter # <<>> THEN <<"--filter", filter[1]>> ELSE <<>>)

RunTaskArgv(task, filter) ==
    <<"bunx", "turbo", "run", task, "--output-logs=json", "--color=always">>
    \o (IF FilterGiven(filter) THEN <<"--filter", filter[1]>> ELSE <<>>)

RunTaskSyncArgv(task, filter) ==
    <<"turbo", "run", task, "--output-logs=json">>
    \o (IF FilterGiven(filter) THEN <<"--filter", filter[1]>> ELSE <<>>)

\* Variant of RunTaskResult without the catch: a parse failure is raised to
\* the caller.
RunTaskResultRaising(text) ==
    LET p == JSONparse(text)
    IN  IF ~p.ok \/ p.v = JNull THEN Thrown
        ELSE Value(Get(p.v, "success"), Get(p.v, "tasks"))

\* Variant of RunTaskResult that reports success for every parsed report.
RunTaskResultOptimistic(text) ==
    LET p == JSONparse(text)
    IN  IF ~p.ok \/ p.v = JNull THEN FailedResult
        ELSE Value(JTrue, Get(p.v, "tasks"))

\* try { const { success, tasks } = JSON.parse(outText); return { success, tasks } }
\* catch { return { success: false, tasks: [] } }
\* (destructuring null throws a TypeError, which the catch takes as well)
RunTaskResult(text) ==
    LET p == JSONparse(text)
    IN  IF ~p.ok \/ p.v = JNull THEN FailedResult
        ELSE Value(Get(p.v, "success"), Get(p.v, "tasks"))

\* Bun.spawnSync(...).success: the child exited with code 0
SpawnSyncSuccess(exit) == exit = Exited(0)

\* try { const { tasks } = JSON.parse(outStr); return { success, tasks } }
\* catch { return { success: false, tasks: [] } }
RunTaskSyncResult(stdout, success) ==
    LET p == JSONparse(stdout)
    IN  IF ~p.ok \/ p.v = JNull THEN FailedResult
        ELSE Value(IF success THEN JTrue ELSE JFalse, Get(p.v, "tasks"))

\* Variant of Construct that makes an instance without looking for the
\* orchestrator.
ConstructUnchecked(installed) == "ready"

\* constructor(readonly root: string) {
\*   if (!existsSync(path.join(this.root, "node_modules", ".bin", "turbo")))
\*     throw new Error("Missing Turborepo. ...") }
Construct(installed) == IF installed THEN "ready" ELSE "failed"

DispInit ==
    /\ inst = "none"
    /\ turbo \in BOOLEAN
    /\ pc = "idle"
    /\ req = NoRequest
    /\ argv = <<>>
    /\ child = NoChild
    /\ result = NoResult
    /\ outText = <<>>
    /\ spawned = 0
    /\ calls = 0
    /\ raised = 0

\* new TurboSDK(root)
NewTurboSDK ==
    /\ inst = "none"
    /\ inst' = Construct(turbo)
    /\ UNCHANGED <<turbo, pc, req, argv, child, result, outText, spawned, calls, raised>>
    /\ UNCHANGED dispOthers

\* static async create(root?) {
\*   const resolvedRoot = root ?? (await findMonorepoRoot());
\*   return new TurboSDK(resolvedRoot); }
\* findMonorepoRoot may raise, and then no constructor runs
CreateTurboSDK ==
    \E rootGiven \in BOOLEAN, rootFound \in BOOLEAN :
        /\ inst = "none"
        /\ inst' = IF rootGiven \/ rootFound THEN Construct(turbo) ELSE "failed"
        /\ UNCHANGED <<turbo, pc, req, argv, child, result, outText, spawned, calls, raised>>
        /\ UNCHANGED dispOthers

\* a method of the instance can be called: there is an instance, and no
\* call on it is in progress
CanCall == inst = "ready" /\ pc \in {"idle", "done"} /\ calls < MaxCalls

\* runTask up to its first await: the child is spawned
RunTask ==
    \E task \in Tasks, filter \in Filters, timeout \in BOOLEAN, plan \in ReportPlans :
        /\ CanCall
        /\ req' = [mode |-> "async", task |-> task, filter |-> filter,
                   timeout |-> timeout]
        /\ argv' = RunTaskArgv(task, filter)
        /\ child' = [NoChild EXCEPT !.st = "running", !.plan = plan]
        /\ spawned' = spawned + 1
        /\ result' = NoResult
        /\ outText' = <<>>
        /\ pc' = "reading"
        /\ UNCHANGED <<inst, turbo, calls, raised>>
        /\ UNCHANGED dispOthers

\* runTaskSync: the child is spawned and the caller's thread blocks
RunTaskSync ==
    \E task \in Tasks, filter \in Filters, timeout \in BOOLEAN, plan \in ReportPlans :
        /\ CanCall
        /\ req' = [mode |-> "sync", task |-> task, filter |-> filter,
                   timeout |-> timeout]
        /\ argv' = RunTaskSyncArgv(task, filter)
        /\ child' = [NoChild EXCEPT !.st = "running", !.plan = plan]
        /\ spawned' = spawned + 1
        /\ result' = NoResult
        /\ outText' = <<>>
        /\ pc' = "blocked"
        /\ UNCHANGED <<inst, turbo, calls, raised>>
        /\ UNCHANGED dispOthers

\* Variant of SpawnFails that takes the failure of the spawn for a failed
\* run and returns { success: false, tasks: [] }.
SpawnFailsSwallowed ==
    \E mode \in {"async", "sync"}, task \in Tasks, filter \in Filters :
        /\ CanCall
        /\ req' = [mode |-> mode, task |-> task, filter |-> filter,
                   timeout |-> FALSE]
        /\ argv' = IF mode = "async" THEN RunTaskArgv(task, filter)
                   ELSE RunTaskSyncArgv(task, filter)
        /\ child' = NoChild
        /\ result' = FailedResult
        /\ outText' = <<>>
        /\ pc' = "done"
        /\ calls' = calls + 1
        /\ UNCHANGED <<inst, turbo, spawned, raised>>
        /\ UNCHANGED dispOthers

\* Bun.spawn / Bun.spawnSync throws: no child exists and the call raises
SpawnFails ==
    \E mode \in {"async", "sync"}, task \in Tasks, filter \in Filters :
        /\ CanCall
        /\ req' = [mode |-> mode, task |-> task, filter |-> filter,
                   timeout |-> FALSE]
        /\ argv' = IF mode = "async" THEN RunTaskArgv(task, filter)
                   ELSE RunTaskSyncArgv(task, filter)
        /\ child' = NoChild
        /\ result' = Thrown
        /\ outText' = <<>>
        /\ pc' = "done"
        /\ calls' = calls + 1
        /\ raised' = raised + 1
        /\ UNCHANGED <<inst, turbo, spawned>>
        /\ UNCHANGED dispOthers

\* the child prints the next token of its report
ChildWrite ==
    /\ child.st = "running"
    /\ Len(child.out) < Len(child.plan.text)
    /\ child' = [child EXCEPT !.out = Append(@, child.plan.text[Len(@) + 1])]
    /\ UNCHANGED <<inst, turbo, pc, req, argv, result, outText, spawned, calls, raised>>
    /\ UNCHANGED dispOthers

\* the child closes its stdout and keeps running
ChildCloseStdout ==
    /\ child.st = "running"
    /\ child' = [child EXCEPT !.st = "closed"]
    /\ UNCHANGED <<inst, turbo, pc, req, argv, result, outText, spawned, calls, raised>>
    /\ UNCHANGED dispOthers

\* the child exits by itself, at any point of its output
ChildExit ==
    \E code \in ExitCodes :
        /\ child.st \in {"running", "closed"}
        /\ child' = [child EXCEPT !.st = "exited", !.exit = Exited(code)]
        /\ UNCHANGED <<inst, turbo, pc, req, argv, result, outText, spawned, calls, raised>>
        /\ UNCHANGED dispOthers

\* timeout: opts.timeoutMs elapsed with the child still alive; the runtime
\* kills it
Timeout ==
    /\ req.timeout
    /\ child.st \in {"running", "closed"}
    /\ child' = [child EXCEPT !.st = "exited", !.exit = Signalled,
                              !.timedOut = TRUE]
    /\ UNCHANGED <<inst, turbo, pc, req, argv, result, outText, spawned, calls, raised>>
    /\ UNCHANGED dispOthers

\* Variant of ReadStdout that resolves with what the child has printed so
\* far, whether or not the stream has ended.
ReadStdoutSoFar ==
    /\ pc = "reading"
    /\ child.st \in {"running", "closed", "exited"}
    /\ outText' = child.out
    /\ pc' = "awaitExit"
    /\ UNCHANGED <<inst, turbo, req, argv, child, result, spawned, calls, raised>>
    /\ UNCHANGED dispOthers

\* await new Response(proc.stdout).text(): resolves at end-of-stream
ReadStdout ==
    /\ pc = "reading"
    /\ child.st \in {"closed", "exited"}
    /\ outText' = child.out
    /\ pc' = "awaitExit"
    /\ UNCHANGED <<inst, turbo, req, argv, child, result, spawned, calls, raised>>
    /\ UNCHANGED dispOthers

\* Variant of AwaitExit that runs the task once more when the report does
\* not parse.
AwaitExitRetrying ==
    /\ pc = "awaitExit"
    /\ child.st = "exited"
    /\ IF RunTaskResult(outText) = FailedResult
       THEN /\ \E plan \in ReportPlans :
                  child' = [NoChild EXCEPT !.st = "running", !.plan = plan]
            /\ spawned' = spawned + 1
            /\ outText' = <<>>
            /\ pc' = "reading"
            /\ UNCHANGED <<result, calls>>
       ELSE /\ result' = RunTaskResult(outText)
            /\ pc' = "done"
            /\ calls' = calls + 1
            /\ UNCHANGED <<child, outText, spawned>>
    /\ UNCHANGED <<inst, turbo, req, argv, raised>>
    /\ UNCHANGED dispOthers

\* await proc.exited, then parse and return
AwaitExit ==
    /\ pc = "awaitExit"
    /\ child.st = "exited"
    /\ result' = RunTaskResult(outText)
    /\ pc' = "done"
    /\ calls' = calls + 1
    /\ UNCHANGED <<inst, turbo, req, argv, child, outText, spawned, raised>>
    /\ UNCHANGED dispOthers

\* Bun.spawnSync returns once the child has exited; parse and return
SyncReturn ==
    /\ pc = "blocked"
    /\ child.st = "exited"
    /\ result' = RunTaskSyncResult(child.out, SpawnSyncSuccess(child.exit))
    /\ pc' = "done"
    /\ calls' = calls + 1
    /\ UNCHANGED <<inst, turbo, req, argv, child, outText, spawned, raised>>
    /\ UNCHANGED dispOthers

DispNext ==
    \/ NewTurboSDK
    \/ CreateTurboSDK
    \/ RunTask
    \/ RunTaskSync
    \/ SpawnFails
    \/ ChildWrite
    \/ ChildCloseStdout
    \/ ChildExit
    \/ Timeout
    \/ ReadStdout
    \/ AwaitExit
    \/ SyncReturn

-----------------------------------------------------------------------------
(* TurboSDK.runTask of the earlier lib variant *)

\* const args = ["run", taskName, "--output-logs=json"];
\* if (options.filter) args.push("--filter", options.filter);
\* spawn("turbo", args, ...)
LibRunTaskArgv(task, filter) ==
    <<"turbo", "run", task, "--output-logs=json">>
    \o (IF FilterGiven(filter) THEN <<"--filter", filter[1]>> ELSE <<>>)

\* try { const jsonOutput = JSON.parse(output);
\*       return { success: jsonOutput.success || turboProcess.exitCode === 0,
\*                tasks: jsonOutput.tasks || [] } }
\* catch (error) { throw new Error("Failed to parse Turborepo output: ...") }
\* (reading a field of null throws a TypeError, which the catch rethrows)
LibRunTaskResult(output, exit) ==
    LET p == JSONparse(output)
    IN  IF ~p.ok \/ p.v = JNull THEN Thrown
        ELSE Value(IF Truthy(Get(p.v, "success")) THEN Get(p.v, "success")
                   ELSE IF exit = Exited(0) THEN JTrue ELSE JFalse,
                   IF Truthy(Get(p.v, "tasks")) THEN Get(p.v, "tasks")
                   ELSE JEmptyArray)

\* runTask up to its await: the child is spawned and the listeners are set
LibRunTask ==
    \E task \in Tasks, filter \in Filters, plan \in ReportPlans :
        /\ CanCall
        /\ req' = [mode |-> "lib", task |-> task, filter |-> filter,
                   timeout |-> FALSE]
        /\ argv' = LibRunTaskArgv(task, filter)
        /\ child' = [NoChild EXCEPT !.st = "running", !.plan = plan]
        /\ spawned' = spawned + 1
        /\ result' = NoResult
        /\ outText' = <<>>
        /\ pc' = "awaitClose"
        /\ UNCHANGED <<inst, turbo, calls, raised>>
        /\ UNCHANGED dispOthers

\* turboProcess.stdout.on("data", (data) => { output += data.toString() }):
\* the next piece of what the child has printed arrives
LibData ==
    /\ pc = "awaitClose"
    /\ Len(outText) < Len(child.out)
    /\ outText' = Append(outText, child.out[Len(outText) + 1])
    /\ UNCHANGED <<inst, turbo, pc, req, argv, child, result, spawned, calls, raised>>
    /\ UNCHANGED dispOthers

\* await new Promise((resolve) => turboProcess.on("close", resolve)): the
\* child has ended and its streams are closed, every piece delivered; then
\* parse and return
LibClose ==
    /\ pc = "awaitClose"
    /\ child.st = "exited"
    /\ outText = child.out
    /\ result' = LibRunTaskResult(outText, child.exit)
    /\ pc' = "done"
    /\ calls' = calls + 1
    /\ raised' = IF LibRunTaskResult(outText, child.exit) = Thrown
                 THEN raised + 1 ELSE raised
    /\ UNCHANGED <<inst, turbo, req, argv, child, outText, spawned>>
    /\ UNCHANGED dispOthers

LibNext ==
    \/ LibRunTask
    \/ LibData
    \/ LibClose

DispOff ==
    /\ inst = "off"
    /\ turbo = FALSE
    /\ pc = "off"
    /\ req = NoRequest
    /\ argv = <<>>
    /\ child = NoChild
    /\ result = NoResult
    /\ outText = <<>>
    /\ spawned = 0
    /\ calls = 0
    /\ raised = 0

-----------------------------------------------------------------------------
(* The command-line drivers: turbo-sdk.ts (import.meta.main) and the earlier *)
(* main() over the lib variant                                              *)

\* Bun.argv.slice(2) / process.argv.slice(2): the arguments after the script
CliArgs ==
    { <<>>, <<"root">>, <<"workspaces">>, <<"tasks">>, <<"view">>,
      <<"run">>, <<"run", "">>, <<"run", "build">>,
      <<"run", "build", "--filter", "docs">>, <<"run", "build", "-f", "docs">>,
      <<"run", "build", "--filter">>, <<"run", "build", "--filter=docs">>,
      <<"run", "build", "--filter=">> }

\* q[i] of a JS array: <<>> (undefined) beyond its end
Elem(q, i) == IF i <= Len(q) THEN <<q[i]>> ELSE <<>>

\* JS truthiness of an argument: undefined and "" are falsy
TruthyArg(a) == a # <<>> /\ a[1] # ""

\* const [cmd = "help", ...rest] = Bun.argv.slice(2)
SdkCmd(args) == IF Len(args) = 0 THEN "help" ELSE args[1]

\* const filter = flags[0] === "--filter" || flags[0] === "-f" ? flags[1] : undefined
SdkFilter(args) ==
    IF Elem(args, 3) \in {<<"--filter">>, <<"-f">>} THEN Elem(args, 4) ELSE <<>>

\* s.replace("--filter=", "") on the arguments of CliArgs
StripFilterPrefix(arg) ==
    CASE arg = "--filter=docs" -> "docs"
      [] arg = "--filter=" -> ""
      [] OTHER -> arg

\* const filter = process.argv[4] ? process.argv[4].replace("--filter=", "") : undefined
LibFilter(args) ==
    IF TruthyArg(Elem(args, 3)) THEN <<StripFilterPrefix(args[3])>> ELSE <<>>

CliFilter(variant, args) == IF variant = "sdk" THEN SdkFilter(args) ELSE LibFilter(args)

\* the driver ends by process.exit(code), or by running to its end (code 0)
CliExit(c, code) == [c EXCEPT !.pc = "exited", !.exit = <<code>>]

\* an error is raised inside the driver.  main() of the lib variant catches
\* it: console.error(error.message); process.exit(1).  The driver of
\* turbo-sdk.ts has no try and awaits at top level (or drops the promise):
\* the error goes uncaught to the runtime, which prints it and ends the
\* process with code 1.
Raised(c, fault) ==
    IF c.variant = "lib"
    THEN [c EXCEPT !.pc = "exited", !.exit = <<1>>, !.fault = fault,
                   !.err = Append(@, "message")]
    ELSE [c EXCEPT !.pc = "exited", !.exit = <<1>>, !.fault = fault,
                   !.uncaught = TRUE]

\* what an awaited function of the library comes to
Outcomes == {"ok", "raised"}

CliInit ==
    /\ cli \in [variant : {"sdk", "lib"}, args : CliArgs, pc : {"start"},
                 exit : {<<>>}, err : {<<>>}, uncaught : {FALSE}, fault : {"none"}]
    /\ CliFilter(cli.variant, cli.args) \in Filters

\* the driver has its instance and is at its switch on the command
AtCommand(variant) ==
    /\ cli.variant = variant
    /\ cli.pc = IF variant = "sdk" THEN "start" ELSE "command"
    /\ inst = "ready"

\* const sdk = new TurboSDK(process.cwd())
CliConstruct ==
    /\ cli.pc = "start"
    /\ NewTurboSDK

\* the constructor threw
CliConstructThrew ==
    /\ cli.pc = "start"
    /\ inst = "failed"
    /\ cli' = Raised(cli, "dependency")
    /\ UNCHANGED dispVars
    /\ UNCHANGED cliOthers

\* lib: const root = await findMonorepoRoot();
\*      const workspaces = await getWorkspaces(root);
LibPrologue ==
    \E root \in Outcomes, workspaces \in Outcomes :
        /\ cli.variant = "lib"
        /\ cli.pc = "start"
        /\ inst = "ready"
        /\ cli' = IF root = "raised" THEN Raised(cli, "root")
                  ELSE IF workspaces = "raised" THEN Raised(cli, "manifest")
                  ELSE [cli EXCEPT !.pc = "command"]
        /\ UNCHANGED dispVars
        /\ UNCHANGED cliOthers

\* case "root": console.log(sdk.root)
SdkRoot ==
    /\ AtCommand("sdk")
    /\ SdkCmd(cli.args) = "root"
    /\ cli' = CliExit(cli, 0)
    /\ UNCHANGED dispVars
    /\ UNCHANGED cliOthers

\* case "workspaces": console.log((await getWorkspaces(sdk.root)).join("\n"))
SdkWorkspaces ==
    \E workspaces \in Outcomes :
        /\ AtCommand("sdk")
        /\ SdkCmd(cli.args) = "workspaces"
        /\ cli' = IF workspaces = "raised" THEN Raised(cli, "manifest")
                  ELSE CliExit(cli, 0)
        /\ UNCHANGED dispVars
        /\ UNCHANGED cliOthers

\* case "tasks": listTasks(sdk.root, await getWorkspaces(sdk.root)) -- the
\* promise of listTasks is not awaited; its rejection is an unhandled one
SdkTasks ==
    \E workspaces \in Outcomes, listed \in Outcomes :
        /\ AtCommand("sdk")
        /\ SdkCmd(cli.args) = "tasks"
        /\ cli' = IF workspaces = "raised" \/ listed = "raised"
                  THEN Raised(cli, "manifest")
                  ELSE CliExit(cli, 0)
        /\ UNCHANGED dispVars
        /\ UNCHANGED cliOthers

\* default: the list of commands
SdkHelp ==
    /\ AtCommand("sdk")
    /\ SdkCmd(cli.args) \notin {"root", "workspaces", "tasks", "run"}
    /\ cli' = CliExit(cli, 0)
    /\ UNCHANGED dispVars
    /\ UNCHANGED cliOthers

\* lib, command === "view": await listTasks(root, workspaces)
LibView ==
    \E listed \in Outcomes :
        /\ AtCommand("lib")
        /\ Elem(cli.args, 1) = <<"view">>
        /\ cli' = IF listed = "raised" THEN Raised(cli, "manifest")
                  ELSE CliExit(cli, 0)
        /\ UNCHANGED dispVars
        /\ UNCHANGED cliOthers

\* lib, any other command: the usage text
LibUsage ==
    /\ AtCommand("lib")
    /\ Elem(cli.args, 1) \notin {<<"view">>, <<"run">>}
    /\ cli' = CliExit(cli, 0)
    /\ UNCHANGED dispVars
    /\ UNCHANGED cliOthers

\* run without a task: if (!task) { console.error(...); process.exit(1) }
CliRunNoTask ==
    \E variant \in {"sdk", "lib"} :
        /\ AtCommand(variant)
        /\ Elem(cli.args, 1) = <<"run">>
        /\ ~TruthyArg(Elem(cli.args, 2))
        /\ cli' = [CliExit(cli, 1) EXCEPT !.err = Append(@, "usage")]
        /\ UNCHANGED dispVars
        /\ UNCHANGED cliOthers

\* the request the driver makes of runTask
CliRequest ==
    /\ req'.task = cli.args[2]
    /\ req'.filter = CliFilter(cli.variant, cli.args)
    /\ req'.timeout = FALSE

\* sdk: await sdk.runTask(task, { filter }), up to the spawn
SdkRunTask ==
    /\ AtCommand("sdk")
    /\ Elem(cli.args, 1) = <<"run">>
    /\ TruthyArg(Elem(cli.args, 2))
    /\ calls = 0
    /\ RunTask \/ (SpawnFails /\ req'.mode = "async")
    /\ CliRequest

\* lib: await turbo.runTask(task, { filter }), up to the spawn
LibRunTaskOfCli ==
    /\ AtCommand("lib")
    /\ Elem(cli.args, 1) = <<"run">>
    /\ TruthyArg(Elem(cli.args, 2))
    /\ calls = 0
    /\ LibRunTask
    /\ CliRequest

\* sdk: const { success } = await sdk.runTask(...); process.exit(success ? 0 : 1)
SdkRunExit ==
    /\ AtCommand("sdk")
    /\ pc = "done"
    /\ cli' = IF result.kind = "throw" THEN Raised(cli, "spawn")
              ELSE CliExit(cli, IF Truthy(result.success) THEN 0 ELSE 1)
    /\ UNCHANGED dispVars
    /\ UNCHANGED cliOthers

\* lib: await turbo.runTask(task, { filter }); and main() runs to its end
LibRunExit ==
    /\ AtCommand("lib")
    /\ pc = "done"
    /\ cli' = IF result.kind = "throw" THEN Raised(cli, "parse")
              ELSE CliExit(cli, 0)
    /\ UNCHANGED dispVars
    /\ UNCHANGED cliOthers

CliNext ==
    \/ CliConstruct
    \/ CliConstructThrew
    \/ LibPrologue
    \/ SdkRoot
    \/ SdkWorkspaces
    \/ SdkTasks
    \/ SdkHelp
    \/ LibView
    \/ LibUsage
    \/ CliRunNoTask
    \/ SdkRunTask
    \/ LibRunTaskOfCli
    \/ SdkRunExit
    \/ LibRunExit
    \/ ChildWrite
    \/ ChildCloseStdout
    \/ ChildExit
    \/ ReadStdout
    \/ AwaitExit
    \/ LibData
    \/ LibClose

-----------------------------------------------------------------------------
(* runTask calls in progress at once on one TurboSDK instance *)

\* the callers that each make one call of runTask on the instance
Callers == {"c1", "c2"}

\* what the child of such a call may set out to print
FlightPlans ==
    { ObjectReport(<< <<"success", JTrue>> >>),
      ObjectReport(<< <<"success", JFalse>> >>),
      RawReport(<<"log">>) }

\* the locals of one invocation of runTask: argv, proc, outText, and the
\* value returned
NoCall ==
    [pc |-> "idle", argv |-> <<>>, child |-> NoChild, outText |-> <<>>,
     result |-> NoResult]

\* Variant of Captured with one buffer on the instance, which every child's
\* output goes to.
CapturedShared(f, c) == f["c1"].child.out \o f["c2"].child.out

\* new Response(proc.stdout).text(): the text of the stdout of the child that
\* this invocation spawned
Captured(f, c) == f[c].child.out

FlightInit == flight = [c \in Callers |-> NoCall]

\* runTask up to its first await, for one caller
FlightRunTask ==
    \E c \in Callers, filter \in {<<>>, <<"docs">>}, plan \in FlightPlans :
        /\ flight[c].pc = "idle"
        /\ flight' = [flight EXCEPT ![c] =
               [pc |-> "reading", argv |-> RunTaskArgv("build", filter),
                child |-> [NoChild EXCEPT !.st = "running", !.plan = plan],
                outText |-> <<>>, result |-> NoResult]]
        /\ UNCHANGED flightOthers

FlightChildWrite ==
    \E c \in Callers :
        /\ flight[c].child.st = "running"
        /\ Len(flight[c].child.out) < Len(flight[c].child.plan.text)
        /\ flight' = [flight EXCEPT ![c].child.out =
               Append(@, flight[c].child.plan.text[Len(@) + 1])]
        /\ UNCHANGED flightOthers

FlightChildCloseStdout ==
    \E c \in Callers :
        /\ flight[c].child.st = "running"
        /\ flight' = [flight EXCEPT ![c].child.st = "closed"]
        /\ UNCHANGED flightOthers

FlightChildExit ==
    \E c \in Callers, code \in ExitCodes :
        /\ flight[c].child.st \in {"running", "closed"}
        /\ flight' = [flight EXCEPT ![c].child.st = "exited",
                                    ![c].child.exit = Exited(code)]
        /\ UNCHANGED flightOthers

\* const outText = await new Response(proc.stdout).text()
FlightReadStdout ==
    \E c \in Callers :
        /\ flight[c].pc = "reading"
        /\ flight[c].child.st \in {"closed", "exited"}
        /\ flight' = [flight EXCEPT ![c].outText = Captured(flight, c),
                                    ![c].pc = "awaitExit"]
        /\ UNCHANGED flightOthers

\* await proc.exited, then parse and return
FlightAwaitExit ==
    \E c \in Callers :
        /\ flight[c].pc = "awaitExit"
        /\ flight[c].child.st = "exited"
        /\ flight' = [flight EXCEPT ![c].result = RunTaskResult(flight[c].outText),
                                    ![c].pc = "done"]
        /\ UNCHANGED flightOthers

FlightNext ==
    \/ FlightRunTask
    \/ FlightChildWrite
    \/ FlightChildCloseStdout
    \/ FlightChildExit
    \/ FlightReadStdout
    \/ FlightAwaitExit

-----------------------------------------------------------------------------
(* The registry API server (apps/api/src/server.ts), route                  *)
(* /api/registry/:name, in its first and its second variant                 *)

\* the :name of a request
ItemNames == {"button", "card"}

\* what public/r/<name>.json may hold: no file (<<>> with exists FALSE), the
\* JSON text of an item, or a text that is no JSON
ItemText == <<"{", WsTok, "name", ":", WsTok, "t", WsTok, "}">>
ItemFiles == {NoFile, File(ItemText), File(<<"log">>)}

\* a response: its status and its body
Response(status, body) == [status |-> status, body |-> body]
NoResponse == Response(0, <<>>)

\* Response.json(value): status 200 unless given, the value serialized
ResponseJson(value, status) == Response(status, value)

\* Response.json({ message: "Item not found" }, { status: 404 })
ItemNotFound == ResponseJson(<<"{", "message", ":", "Item not found", "}">>, 404)

\* error(error): new Response("Internal Error: ...", { status: 500 })
InternalError == Response(500, <<"Internal Error">>)

\* await Bun.file(path).json(): rejects when there is no file or its text is
\* no JSON
FileJson(file) ==
    IF ~file.exists THEN [ok |-> FALSE, v |-> Undefined]
    ELSE JSONparse(file.text)

ApiInit ==
    api \in [variant : {"first", "second"}, files : [ItemNames -> ItemFiles],
             pc : {"idle"}, name : {"button"}, item : {Undefined},
             resp : {NoResponse}, stable : {TRUE}, served : {0}]

\* a request GET /api/registry/<name> arrives and its handler starts
ApiRequest ==
    \E name \in ItemNames :
        /\ api.pc \in {"idle", "responded"}
        /\ api.served < MaxRequests
        /\ api' = [api EXCEPT !.pc = "json", !.name = name, !.item = Undefined,
                              !.resp = NoResponse, !.stable = TRUE]
        /\ UNCHANGED apiOthers

\* first variant:
\*   const file = await Bun.file(`public/r/${req.params.name}.json`).json();
\*   return Response.json(file);
\* a rejection goes to error(error)
ApiFirstHandler ==
    /\ api.variant = "first"
    /\ api.pc = "json"
    /\ LET p == FileJson(api.files[api.name])
       IN  api' = [api EXCEPT !.pc = "responded", !.served = @ + 1,
                              !.item = p.v,
                              !.resp = IF p.ok THEN ResponseJson(p.v, 200)
                                       ELSE InternalError]
    /\ UNCHANGED apiOthers

\* second variant, up to its second await:
\*   const file = Bun.file(itemPath);
\*   const item = await file.json();
\* a rejection goes to error(error)
ApiSecondJson ==
    /\ api.variant = "second"
    /\ api.pc = "json"
    /\ LET p == FileJson(api.files[api.name])
       IN  api' = IF p.ok THEN [api EXCEPT !.pc = "exists", !.item = p.v]
                  ELSE [api EXCEPT !.pc = "responded", !.served = @ + 1,
                                   !.resp = InternalError]
    /\ UNCHANGED apiOthers

\* second variant, the rest:
\*   if (await file.exists()) return Response.json(item);
\*   return Response.json({ message: "Item not found" }, { status: 404 });
ApiSecondExists ==
    /\ api.variant = "second"
    /\ api.pc = "exists"
    /\ api' = [api EXCEPT !.pc = "responded", !.served = @ + 1,
                          !.resp = IF api.files[api.name].exists
                                   THEN ResponseJson(api.item, 200)
                                   ELSE ItemNotFound]
    /\ UNCHANGED apiOthers

\* an item file is written, rewritten or removed while the server runs
ApiFileChange ==
    \E name \in ItemNames, file \in ItemFiles :
        /\ api.files[name] # file
        /\ api' = [api EXCEPT !.files[name] = file, !.stable = FALSE]
        /\ UNCHANGED apiOthers

ApiNext ==
    \/ ApiRequest
    \/ ApiFirstHandler
    \/ ApiSecondJson
    \/ ApiSecondExists
    \/ ApiFileChange

-----------------------------------------------------------------------------
(* The waitlist server action (packages/ui/src/waitlist/waitlist-form.tsx)  *)

\* formData.get("email") of a form without that field
FormNull == <<"null">>

\* what the form's email field may hold (strings are character sequences)
FormInputs ==
    { FormNull, <<>>, <<"a", "b">>, <<"a", "@", "b">>,
      <<"a", "@", "b", ".", "c">>,
      <<"a", "@", "b", ".", "i", "o">>, <<"d", "@", "b", ".", "i", "o">> }

\* !email
EmailMissing(email) == email = FormNull \/ email = <<>>

\* z.string().email(): one "@", a local part and domain labels that are not
\* empty, and a last label of two characters or more
IsEmail(email) ==
    LET n == Len(email)
        ats == {i \in 1..n : email[i] = "@"}
        dots == {i \in 1..n : email[i] = "."}
    IN  /\ email # FormNull
        /\ Cardinality(ats) = 1
        /\ LET a == CHOOSE i \in ats : TRUE
           IN  /\ a > 1
               /\ \E d \in dots : d > a
               /\ \A d \in dots :
                     /\ d > 1 /\ d < n
                     /\ d # a - 1 /\ d # a + 1
                     /\ (d + 1) \notin dots
               /\ \A d \in dots : d > a => d <= n - 2 \/ \E e \in dots : e > d

\* schema.safeParse({ email }).success
SchemaAccepts(email) == IsEmail(email)

\* the addresses the schema accepts among the inputs
Addresses == {e \in FormInputs : SchemaAccepts(e)}

\* a value joinWaitlist returns; count is <<>> where the code gives none
JoinResult(success, message, count) ==
    [success |-> success, message |-> message, count |-> count]
NoJoinResult == JoinResult(FALSE, "", <<>>)

EmailRequired == JoinResult(FALSE, "Email is required", <<>>)
InvalidEmail == JoinResult(FALSE, "Invalid email address", <<>>)
FailedToJoin ==
    JoinResult(FALSE, "Failed to join waitlist. Please try again.", <<>>)
UnexpectedError ==
    JoinResult(FALSE, "An unexpected error occurred. Please try again.", <<>>)
Joined(count) ==
    JoinResult(TRUE,
        "You have been added to the waitlist! Check your email for confirmation.",
        <<count>>)

\* an error raised inside joinWaitlist with no catch around it: it leaves
\* the function
Rethrown(w, fault) ==
    [w EXCEPT !.pc = "returned", !.fault = fault, !.raised = TRUE]

\* catch (error) { console.error(...); return { success: false, ... } }
Caught(w, fault) ==
    [w EXCEPT !.pc = "returned", !.fault = fault, !.ret = UnexpectedError]

\* getWaitlistCount: redis.scard("waitlist_emails"), 0 when that raises
GetWaitlistCount(emails, scardOk) ==
    IF scardOk THEN Cardinality(emails) ELSE 0

WaitInit ==
    wait \in [emails : SUBSET Addresses, sent : {<<>>}, pc : {"idle"},
              input : {FormNull}, before : {{}}, mailed : {0},
              ret : {NoJoinResult}, fault : {"none"}, raised : {FALSE},
              joins : {0}]

\* the form is submitted: joinWaitlist(prevState, formData) is called
JoinWaitlist ==
    \E email \in FormInputs :
        /\ wait.pc \in {"idle", "returned"}
        /\ wait.joins < MaxJoins
        /\ wait' = [wait EXCEPT !.pc = "entered", !.input = email,
                                !.before = wait.emails,
                                !.mailed = Len(wait.sent),
                                !.ret = NoJoinResult, !.fault = "none",
                                !.raised = FALSE, !.joins = @ + 1]
        /\ UNCHANGED waitOthers

\* new Resend(...), formData.get("email"), the two tests of the input
JoinValidate ==
    \E resendOk \in BOOLEAN :
        /\ wait.pc = "entered"
        /\ wait' =
             IF ~resendOk THEN Caught(wait, "resend")
             ELSE IF EmailMissing(wait.input)
                  THEN [wait EXCEPT !.pc = "returned", !.ret = EmailRequired]
             ELSE IF ~SchemaAccepts(wait.input)
                  THEN [wait EXCEPT !.pc = "returned", !.ret = InvalidEmail]
             ELSE [wait EXCEPT !.pc = "sadd"]
        /\ UNCHANGED waitOthers

\* await redis.sadd("waitlist_emails", email.toString())
JoinStore ==
    \E saddOk \in BOOLEAN :
        /\ wait.pc = "sadd"
        /\ wait' =
             IF saddOk
             THEN [wait EXCEPT !.pc = "send", !.emails = @ \cup {wait.input}]
             ELSE Caught(wait, "store")
        /\ UNCHANGED waitOthers

\* const { data, error } = await resend.emails.send({...}); if (error) ...
JoinSend ==
    \E outcome \in {"data", "error", "raised"} :
        /\ wait.pc = "send"
        /\ wait' =
             CASE outcome = "data" ->
                    [wait EXCEPT !.pc = "count",
                                 !.sent = Append(@, wait.input)]
               [] outcome = "error" ->
                    [wait EXCEPT !.pc = "returned", !.fault = "mail",
                                 !.ret = FailedToJoin]
               [] outcome = "raised" -> Caught(wait, "mail")
        /\ UNCHANGED waitOthers

\* const count = await getWaitlistCount(); return { success: true, ... }
JoinCount ==
    \E scardOk \in BOOLEAN :
        /\ wait.pc = "count"
        /\ wait' = [wait EXCEPT
                       !.pc = "returned",
                       !.fault = IF scardOk THEN "none" ELSE "count",
                       !.ret = Joined(GetWaitlistCount(wait.emails, scardOk))]
        /\ UNCHANGED waitOthers

WaitNext ==
    \/ JoinWaitlist
    \/ JoinValidate
    \/ JoinStore
    \/ JoinSend
    \/ JoinCount

-----------------------------------------------------------------------------
(* The Searchbar component (packages/ui/src/components/searchbar.tsx)       *)

\* e.target.value of a change event
SearchTerms == {"a", "ab"}

\* the functions a parent passes as onChange
Callbacks == {"f", "g"}

\* debounceTime, in clock ticks
WaitTimes == {1, 2}

\* the props useMemo depends on
SearchProps == [onChange : Callbacks, debounceTime : WaitTimes]

\* a debouncer's timer: not set, or due in `left` ticks to call with `arg`
NoTimer == [on |-> FALSE, left |-> 0, arg |-> ""]
Timer(left, arg) == [on |-> TRUE, left |-> left, arg |-> arg]

\* debounce((searchTerm) => { onChange?.(searchTerm) },
\*          { wait: debounceTime, trailing: true })
\* the debouncer closes over the onChange and the debounceTime of its render
Debounce(props) ==
    [onChange |-> props.onChange, wait |-> props.debounceTime, timer |-> NoTimer]

\* a call of the debounced function: its timer is set anew, the earlier
\* pending call is dropped
DebouncedCall(d, arg) == [d EXCEPT !.timer = Timer(d.wait, arg)]

\* useMemo(() => debounce(...), [debounceTime, onChange]) of a render with a
\* changed dependency: a new debouncer; the one it replaces is dropped as it
\* is, its timer still set
Rerender(debs, props) == debs \o <<Debounce(props)>>

\* the debouncer of the latest render, the one handleChange calls
Current(debs) == Len(debs)

\* the debouncers whose timer is set
Pending(debs) == {i \in 1..Len(debs) : debs[i].timer.on}

SearchInit ==
    \E props \in SearchProps :
        search = [props |-> props, value |-> "", typed |-> "",
                  debs |-> <<Debounce(props)>>, invoked |-> <<>>,
                  since |-> 0, fired |-> 0, changes |-> 0, renders |-> 0]

\* handleChange: setValue(newValue); debouncedOnChange(newValue)
HandleChange ==
    \E newValue \in SearchTerms :
        /\ search.changes < MaxChanges
        /\ search' = [search EXCEPT
                         !.value = newValue, !.typed = newValue,
                         !.debs[Current(search.debs)] =
                             DebouncedCall(@, newValue),
                         !.since = 0, !.fired = 0, !.changes = @ + 1]
        /\ UNCHANGED searchOthers

\* the parent renders the Searchbar with another onChange or debounceTime
SearchRerender ==
    \E props \in SearchProps :
        /\ search.renders < MaxRenders
        /\ props # search.props
        /\ search' = [search EXCEPT
                         !.props = props,
                         !.debs = Rerender(@, props),
                         !.renders = @ + 1]
        /\ UNCHANGED searchOthers

\* a clock tick passes; a timer that is due runs before the next tick
SearchTick ==
    /\ Pending(search.debs) # {}
    /\ \A i \in Pending(search.debs) : search.debs[i].timer.left > 0
    /\ search' = [search EXCEPT
                     !.debs = [i \in 1..Len(@) |->
                                 IF @[i].timer.on
                                 THEN [@[i] EXCEPT !.timer.left = @ - 1]
                                 ELSE @[i]],
                     !.since = @ + 1]
    /\ UNCHANGED searchOthers

\* a debouncer's timer runs out: (searchTerm) => { onChange?.(searchTerm) }
SearchFire ==
    \E i \in Pending(search.debs) :
        /\ search.debs[i].timer.left = 0
        /\ search' = [search EXCEPT
                         !.debs[i].timer = NoTimer,
                         !.fired = @ + 1,
                         !.invoked = Append(@,
                             [fn |-> search.debs[i].onChange,
                              value |-> search.debs[i].timer.arg,
                              shown |-> search.value,
                              since |-> search.since,
                              due |-> search.debs[i].wait,
                              nth |-> search.fired + 1])]
        /\ UNCHANGED searchOthers

SearchNext ==
    \/ HandleChange
    \/ SearchRerender
    \/ SearchTick
    \/ SearchFire

-----------------------------------------------------------------------------
(* Properties of the task dispatcher *)

CallReturned == pc = "done" /\ child.st = "exited"

\* the child printed its whole report, a JSON object
PrintedObject == child.plan.object /\ child.out = child.plan.text

NonZeroExit == \E n \in ExitCodes \ {0} : child.exit = Exited(n)

\* C1: whenever the child exits with a non-zero code and its stdout is a
\* valid JSON document with success = true, runTask (and runTaskSync) returns
\* a result with success = false.
C1_ExitCodeOverridesReport ==
    (/\ CallReturned
     /\ NonZeroExit
     /\ PrintedObject
     /\ ReportField(child.plan, "success") = JTrue)
    => (result.kind = "value" /\ result.success = JFalse)

\* C2: whenever the captured stdout is not parseable as JSON, runTask and
\* runTaskSync return exactly {success: false, tasks: []}, for every exit
\* status, and do not throw.
C2_MalformedReportFailClosed ==
    (CallReturned /\ ~JSONparse(child.out).ok) => result = FailedResult

\* C2 witness: an asynchronous call returned after the child, cut off in the
\* middle of its JSON object, exited with code 0.
C2_Witness ==
    /\ CallReturned
    /\ req.mode = "async"
    /\ child.exit = Exited(0)
    /\ child.plan.object
    /\ child.out # <<>>
    /\ child.out # child.plan.text
    /\ result = FailedResult

\* C3: when the child exits with code 0 and its stdout is one JSON object with
\* fields success and tasks, runTask returns exactly the values of those two
\* fields.
C3_VerbatimSuccessReport ==
    (/\ CallReturned
     /\ req.mode = "async"
     /\ child.exit = Exited(0)
     /\ PrintedObject
     /\ ReportField(child.plan, "success") # Undefined
     /\ ReportField(child.plan, "tasks") # Undefined)
    => result = Value(ReportField(child.plan, "success"),
                      ReportField(child.plan, "tasks"))

\* C3 witness: exit 0 with a report {tasks: [...], success: false} returned
\* as it stands.
C3_Witness ==
    /\ CallReturned
    /\ req.mode = "async"
    /\ child.exit = Exited(0)
    /\ PrintedObject
    /\ result = Value(JFalse, TaskList)

\* C4: if a timeout is given and elapses with the child still alive, the
\* child is killed and the call returns {success: false, tasks: []}, whatever
\* the child had printed before.
C4_TimeoutTermination ==
    (CallReturned /\ child.timedOut) => result = FailedResult

-----------------------------------------------------------------------------
(* Properties of the root resolver *)

WalkDone == wpc \in {"returned", "failed", "threw"}

Range(f) == {f[i] : i \in DOMAIN f}

\* a directory that is a repository root by the data model: it holds the
\* marker file, or a manifest declaring a non-empty workspace-glob list
Qualifies(d) == wfs[d].turbo \/ wfs[d].pkg = File(ManifestWorkspaces)

QualifyingDirs == {d \in DOMAIN wfs : Qualifies(d)}

WalkParent == IF wvariant = "sdk" THEN ParentDir(wdir) ELSE LibParentDir(wdir)

\* C5: when exactly one directory from startDir up to the filesystem root
\* holds a marker file or a workspace-declaring manifest, findMonorepoRoot
\* returns that directory.
C5_RootResolutionDeterminism ==
    (WalkDone /\ Cardinality(QualifyingDirs) = 1)
    => (wpc = "returned" /\ wres \in QualifyingDirs)

\* C6: when no directory from startDir up to and including the filesystem
\* root holds a marker file or a workspace-declaring manifest,
\* findMonorepoRoot fails with NotInMonorepo and returns no path.
C6_RootResolutionFailure ==
    (WalkDone /\ QualifyingDirs = {}) => wpc = "failed"

C8_NonEmptyWorkspacesOnly ==
    (wpc = "returned" /\ ~FsAt(wfs, wres).turbo)
    => FsAt(wfs, wres).pkg = File(ManifestWorkspaces)

\* C9: a directory holding the marker file is returned as soon as the walk
\* reaches it, whatever its manifest, and its manifest is not read.
C9_MarkerPrecedence ==
    \A d \in Range(wvisited) :
        FsAt(wfs, d).turbo => (wpc = "returned" /\ wres = d /\ d \notin wconsulted)

\* C9 witness: the walk went up to a directory with the marker file and an
\* unparseable manifest, and returned it.
C9_Witness ==
    /\ wpc = "returned"
    /\ Len(wvisited) >= 2
    /\ wfs[wres].turbo
    /\ wfs[wres].pkg = File(ManifestGarbage)

-----------------------------------------------------------------------------
(* Properties of the workspace enumerator *)

\* the root manifest's workspaces entries all have the form "<dir>/*"
AllStarGlobs ==
    /\ gmanifest.kind = "list"
    /\ \A i \in 1..Len(gmanifest.globs) : gmanifest.globs[i] \in StarGlobs

GlobbedDirs ==
    {d \in GlobDirs : \E i \in 1..Len(gmanifest.globs) : gmanifest.globs[i] = StarGlob(d)}

\* the paths <dir>/<sub> with <sub> an immediate subdirectory of root/<dir>
\* that holds a package.json, over the directories the globs name
Members ==
    UNION {{d \o <<Sep>> \o gfs[d][i].name :
               i \in {j \in 1..Len(gfs[d]) : gfs[d][j].kind = "pkgdir"}} :
           d \in GlobbedDirs \cap DOMAIN gfs}

\* C10: for a root manifest whose workspaces entries all have the form
\* "<dir>/*", getWorkspaces returns exactly the paths <dir>/<sub> such that
\* <sub> is an immediate subdirectory of root/<dir> holding a package.json;
\* files and subdirectories without a manifest are left out without error.
C10_EnumerationExact ==
    gvariant = "sdk" =>
        /\ (gpc = "done" /\ AllStarGlobs) => Range(gres) = Members
        /\ (gpc = "threw" /\ AllStarGlobs) => FALSE

\* C10 witness: workspaces [a/*, p/*] where a holds the package x, the
\* directory y without manifest, and p holds the package x: the result is
\* [a/x, p/x].
C10_Witness ==
    /\ gpc = "done"
    /\ gvariant = "sdk"
    /\ gmanifest.globs = <<StarGlob(<<"a">>), StarGlob(<<"p">>)>>
    /\ gfs = (<<"a">> :> <<Entry(<<"y">>, "dir"), Entry(<<"x">>, "pkgdir")>>)
             @@ (<<"p">> :> <<Entry(<<"x">>, "pkgdir")>>)
    /\ gres = << <<"a", Sep, "x">>, <<"p", Sep, "x">> >>

\* the sequence is in ascending order of its paths
Ascending(q) == \A i, j \in 1..Len(q) : i < j => ~StringLess(q[j], q[i])

\* C11: the sequence getWorkspaces returns is sorted lexicographically by
\* relative path, whatever the order of the globs in the root manifest and
\* the order in which the filesystem lists the directory entries.
C11_DeterministicOrdering == gpc = "done" => Ascending(gres)

\* some "<dir>/*" entry of the root manifest names a directory that does
\* not exist under the root
SomeBaseMissing == AllStarGlobs /\ ~(GlobbedDirs \subseteq DOMAIN gfs)

\* C12: when the base directory of a glob does not exist, the glob
\* contributes no members, the members of the other globs are still
\* returned, and getWorkspaces raises no error.
C12_PartialLayoutTolerated ==
    (SomeBaseMissing /\ gpc \in {"done", "threw"}) =>
        (gpc = "done" /\ Range(gres) = Members)

\* C13: when the root manifest is missing or is not valid JSON, getWorkspaces
\* fails with an error (its promise rejects) and returns no list.
C13_RootManifestFatal ==
    (gmanifest.kind \in {"missing", "invalid"} /\ gpc # "start") =>
        (gpc = "threw" /\ gres = <<>>)

\* C13 witness: getWorkspaces of turbo-sdk.ts has raised on a root manifest
\* that is not valid JSON, with packages present under the root.
C13_Witness ==
    /\ gpc = "threw"
    /\ gvariant = "sdk"
    /\ gmanifest.kind = "invalid"
    /\ <<"a">> \in DOMAIN gfs
    /\ \E i \in 1..Len(gfs[<<"a">>]) : gfs[<<"a">>][i].kind = "pkgdir"

-----------------------------------------------------------------------------
(* Properties of the task catalog *)

TaskNames == {"build", "test"}

\* the member's manifest has a script of that name
Declares(ws, name) ==
    \E i \in 1..Len(ScriptNames(tmanifests[ws])) : ScriptNames(tmanifests[ws])[i] = name

\* the members that declare the task, in the order of the argument
DeclaringMembers(name) == SelectSeq(tmembers, LAMBDA ws : Declares(ws, name))

\* C14: the catalog has a key for a task name exactly when some member
\* declares a script of that name, and the list under the key is the members
\* declaring it, in the order of the members argument; a member without a
\* scripts section adds nothing.
C14_CatalogAggregation ==
    tpc = "done" =>
        /\ \A i, j \in 1..Len(tcatalog) : tcatalog[i].name = tcatalog[j].name => i = j
        /\ \A i \in 1..Len(tcatalog) :
              /\ tcatalog[i].name \in TaskNames
              /\ tcatalog[i].pkgs = DeclaringMembers(tcatalog[i].name)
        /\ \A name \in TaskNames :
              DeclaringMembers(name) # <<>> =>
                  \E i \in 1..Len(tcatalog) : tcatalog[i].name = name
        /\ tout = Printed(tcatalog)

\* C14 witness: members p/x (scripts test, build), a/y (no scripts section)
\* and a/x (script build) give test -> [p/x] and build -> [p/x, a/x].
C14_Witness ==
    /\ tpc = "done"
    /\ tmembers = << <<"p", Sep, "x">>, <<"a", Sep, "y">>, <<"a", Sep, "x">> >>
    /\ tmanifests[<<"p", Sep, "x">>] = [kind |-> "scripts", scripts |-> <<"test", "build">>]
    /\ tmanifests[<<"a", Sep, "y">>].kind = "noScripts"
    /\ tmanifests[<<"a", Sep, "x">>] = [kind |-> "scripts", scripts |-> <<"build">>]
    /\ tcatalog = << Line("test", << <<"p", Sep, "x">> >>),
                     Line("build", << <<"p", Sep, "x">>, <<"a", Sep, "x">> >>) >>

\* C15: in the catalog listTasks builds from the members getWorkspaces
\* returned, no member appears more than once in the list of any task.
C15_NoMemberTwice ==
    (tpc = "done" /\ gpc = "done") =>
        \A i \in 1..Len(tcatalog) :
            \A j, k \in 1..Len(tcatalog[i].pkgs) :
                tcatalog[i].pkgs[j] = tcatalog[i].pkgs[k] => j = k

\* some member of the argument has a manifest that cannot be read or parsed
SomeUnreadable == \E i \in 1..Len(tmembers) : Unreadable(tmanifests[tmembers[i]])

\* C16 as stated: a member whose manifest cannot be read or parsed is passed
\* over, and no error reaches the caller of listTasks.
C16_SkipsSilently == SomeUnreadable => tpc # "threw"

\* C16: listTasks stops at the first member whose manifest cannot be read or
\* parsed: the error reaches the caller, the members after it are not read
\* and nothing is printed; it comes to its end only when every manifest is
\* readable.
C16_MemberManifestFatal ==
    /\ tpc \in {"loop", "done"} =>
          \A j \in 1..Len(tmembers) : j < ti => ~Unreadable(tmanifests[tmembers[j]])
    /\ tpc = "done" => ~SomeUnreadable
    /\ tpc = "threw" =>
          /\ Unreadable(tmanifests[tmembers[ti]])
          /\ \A j \in 1..(ti - 1) : ~Unreadable(tmanifests[tmembers[j]])
          /\ tout = <<>>

\* C16 witness: listTasks has raised at its second member, after it put the
\* scripts of the first into the catalog.
C16_Witness ==
    /\ tpc = "threw"
    /\ ti = 2
    /\ tcatalog # <<>>
    /\ tmanifests[tmembers[2]].kind = "invalid"

-----------------------------------------------------------------------------
(* Properties of construction and of the spawned child *)

\* C17: constructing a TurboSDK (by new or by create) for a root without
\* node_modules/.bin/turbo raises, so there is no instance and no child is
\* ever spawned; a call of runTask happens only on an instance whose check
\* passed.
C17_MissingDependencyEager ==
    /\ ~turbo => (inst # "ready" /\ pc = "idle" /\ spawned = 0 /\ calls = 0)
    /\ (pc # "idle" \/ spawned > 0 \/ calls > 0) => (inst = "ready" /\ turbo)

\* C17 witness: the constructor has raised for a root without the
\* orchestrator.
C17_Witness == inst = "failed" /\ ~turbo /\ spawned = 0

\* a call is in progress
InFlight == pc \in {"reading", "awaitExit", "blocked"}

\* C18 as stated: every call spawns exactly one child, never zero, so after
\* n completed calls exactly n children have been spawned.
C18_OneChildPerCall ==
    /\ ~InFlight => spawned = calls
    /\ InFlight => spawned = calls + 1

\* C18: every call invokes the spawn primitive once and never again: a call
\* that returns a result has spawned exactly one child, whatever the child
\* did (failure, timeout, malformed report), and a call whose spawn raises
\* has spawned none; so the children spawned are as many as the calls that
\* returned a result, plus one while a call is in progress.
C18_OneSpawnPerCall ==
    /\ ~InFlight => spawned = calls - raised
    /\ InFlight => spawned = calls - raised + 1
    /\ (pc = "done" /\ result.kind = "value") => child.st = "exited"
    /\ (pc = "done" /\ result.kind = "throw") => child = NoChild

\* C18 witness: two calls have completed, one whose spawn raised and one
\* whose child was killed by the timeout with a malformed report; one child
\* has been spawned.
C18_Witness ==
    /\ pc = "done"
    /\ calls = 2
    /\ raised = 1
    /\ spawned = 1
    /\ child.timedOut
    /\ result = FailedResult

\* the argument vector holds the flag immediately followed by the value
HasPair(av, flag, value) ==
    \E i \in 1..(Len(av) - 1) : av[i] = flag /\ av[i + 1] = value

HasArg(av, arg) == \E i \in 1..Len(av) : av[i] = arg

\* C19 as stated: the pair (--filter, value) is in the argument vector
\* exactly when the request carries a filter.
C19_FilterIffProvided ==
    req.mode # "none" => (HasArg(argv, "--filter") <=> req.filter # <<>>)

\* C19: in every call the argument vector holds "run" followed by the task
\* name, and --output-logs=json; it holds the pair (--filter, value), with
\* the value unchanged, exactly when the request carries a non-empty filter,
\* and no --filter at all otherwise (an empty-string filter is dropped like
\* an absent one).
C19_ArgumentVector ==
    req.mode # "none" =>
        /\ HasPair(argv, "run", req.task)
        /\ HasArg(argv, "--output-logs=json")
        /\ IF req.filter # <<>> /\ req.filter[1] # ""
           THEN HasPair(argv, "--filter", req.filter[1])
           ELSE ~HasArg(argv, "--filter")

\* C19 witness: an asynchronous call with the filter "docs" has returned;
\* its child was given --filter docs.
C19_Witness ==
    /\ pc = "done"
    /\ req.mode = "async"
    /\ req.filter = <<"docs">>
    /\ child.st = "exited"
    /\ HasPair(argv, "--filter", "docs")

\* C20: no child is ever spawned with an empty task name.
C20_TaskNameNonEmpty == child.st # "none" => req.task # ""

\* C23: when creating the child process fails, runTask / runTaskSync raises
\* to the caller instead of returning a TaskRunResult, and the call makes no
\* second spawn attempt: it is over, with no child.
C23_SpawnFailureFatal ==
    /\ (pc = "done" /\ child.st = "none") => result = Thrown
    /\ result.kind = "throw" => (pc = "done" /\ child = NoChild /\ raised >= 1)
    /\ raised <= calls

\* C23 witness: the first call, a synchronous one, is over: its spawn failed,
\* it raised, and no child has been spawned.
C23_Witness ==
    /\ pc = "done"
    /\ req.mode = "sync"
    /\ result = Thrown
    /\ calls = 1
    /\ spawned = 0

\* C26: for the same child outcome (stdout text and exit), runTaskSync
\* returns what runTask resolves to.
C26_ModesAgree ==
    (CallReturned /\ result.kind = "value") =>
        /\ result = RunTaskResult(child.out)
        /\ result = RunTaskSyncResult(child.out, SpawnSyncSuccess(child.exit))

\* C27: inside one asynchronous runTask call the result is made only after
\* the child's stdout has been consumed to end-of-stream and the child has
\* exited; it is parsed from the complete captured stdout, never from a
\* prefix, and no result is delivered while the child is still running.
C27_ResultAfterStreamAndExit ==
    /\ pc \in {"reading", "awaitExit", "awaitClose"} => result = NoResult
    /\ pc = "awaitExit" => (child.st \in {"closed", "exited"} /\ outText = child.out)
    /\ (req.mode \in {"async", "lib"} /\ pc = "done" /\ child.st # "none") =>
          (child.st = "exited" /\ outText = child.out)
    /\ (req.mode = "async" /\ pc = "done" /\ child.st # "none") =>
          result = RunTaskResult(child.out)
    /\ (req.mode = "lib" /\ pc = "done") =>
          result = LibRunTaskResult(child.out, child.exit)

\* C27 witness: an asynchronous call has returned the report of a child that
\* printed its whole object and exited; the text read is the whole report.
C27_Witness ==
    /\ CallReturned
    /\ req.mode = "async"
    /\ PrintedObject
    /\ outText = child.plan.text
    /\ result = Value(JTrue, TaskList)

-----------------------------------------------------------------------------
(* Properties of the command-line drivers *)

\* C21: the run command exits with code 0 exactly when the dispatcher's
\* result has success = true, and with code 1 otherwise (malformed report
\* and missing task argument included).
C21_RunExitCode ==
    (cli.pc = "exited" /\ Elem(cli.args, 1) = <<"run">>) =>
        (cli.exit = <<0>> <=> (result.kind = "value" /\ result.success = JTrue))

\* C22: every error raised by root resolution, manifest reading, the
\* dependency check or spawning ends the driver with a non-zero exit code
\* and a one-line message on standard error; none goes uncaught to the
\* runtime.
C22_ErrorsTranslated ==
    (cli.pc = "exited" /\ cli.fault # "none") =>
        (cli.exit # <<0>> /\ Len(cli.err) = 1 /\ ~cli.uncaught)

-----------------------------------------------------------------------------
(* Properties of calls in progress at once *)

\* C24: whatever the interleaving of the runTask calls in progress on one
\* instance, each call has a child of its own, and the result of each call
\* is determined by the stdout of its own child alone.
C24_CallsIndependent ==
    \A c \in Callers :
        /\ flight[c].pc # "idle" => flight[c].child.st # "none"
        /\ flight[c].pc \in {"awaitExit", "done"} =>
              flight[c].outText = flight[c].child.out
        /\ flight[c].pc = "done" =>
              /\ flight[c].child.st = "exited"
              /\ flight[c].result = RunTaskResult(flight[c].child.out)

\* C24 witness: both calls are in progress at once with the same request;
\* the first has read the whole report of its own child to end-of-stream
\* while the child of the second, still running, has printed a log text.
C24_Witness ==
    /\ flight["c1"].pc = "awaitExit"
    /\ flight["c2"].pc = "reading"
    /\ flight["c1"].argv = flight["c2"].argv
    /\ flight["c2"].child.st = "running"
    /\ flight["c2"].child.out = <<"log">>
    /\ flight["c1"].outText = RenderObject(<< <<"success", JTrue>> >>)

-----------------------------------------------------------------------------
(* Properties of the registry API server *)

\* the request in hand is answered, and no item file changed while it was
\* handled
AnsweredUndisturbed == api.pc = "responded" /\ api.stable

\* C28: a request for an item whose file <name>.json does not exist is
\* answered with status 404 and the body {message: "Item not found"}, not by
\* the 500 error handler; a request for an existing item is answered with
\* status 200 and the file's JSON content.
C28_ItemNotFound ==
    /\ (AnsweredUndisturbed /\ ~api.files[api.name].exists) =>
          api.resp = ItemNotFound
    /\ (AnsweredUndisturbed /\ api.files[api.name] = File(ItemText)) =>
          api.resp = ResponseJson(JSONparse(ItemText).v, 200)

-----------------------------------------------------------------------------
(* Properties of the waitlist server action *)

\* joinWaitlist has returned or raised
JoinOver == wait.pc = "returned"

\* the call in hand changed neither the waitlist_emails set nor the mail sent
NoJoinEffect == wait.emails = wait.before /\ Len(wait.sent) = wait.mailed

\* a missing or invalid email gives {success: false, message} with no effect,
\* and no error leaves joinWaitlist
RejectedInputHasNoEffect ==
    /\ (JoinOver /\ wait.fault = "none"
           /\ (EmailMissing(wait.input) \/ ~SchemaAccepts(wait.input))) =>
          /\ wait.ret.success = FALSE
          /\ wait.ret.message # ""
          /\ NoJoinEffect
    /\ (wait.pc \notin {"idle", "entered"}
           /\ (EmailMissing(wait.input) \/ ~SchemaAccepts(wait.input))) =>
          NoJoinEffect
    /\ wait.raised = FALSE

\* C29 as stated: joinWaitlist has no side effects on rejected input and
\* never throws; for every failure of the store or the mail service it
\* returns a value with success = false.
C29_EveryFailureReturnsFailure ==
    /\ RejectedInputHasNoEffect
    /\ (JoinOver /\ wait.fault # "none") => wait.ret.success = FALSE

\* C29 amended: joinWaitlist has no side effects on rejected input and never
\* throws; when the Resend client cannot be built, sadd fails or the mail
\* service fails it returns a value with success = false; when only the
\* count (scard) fails after the mail was sent it returns success = true
\* with count 0.
C29_NoEffectOnRejectedNeverThrows ==
    /\ RejectedInputHasNoEffect
    /\ (JoinOver /\ wait.fault \in {"resend", "store", "mail"}) =>
          wait.ret.success = FALSE
    /\ (JoinOver /\ wait.fault = "count") => wait.ret = Joined(0)

\* an input that is present but no e-mail address was rejected, in a waitlist
\* that has members
C29_Witness ==
    /\ JoinOver
    /\ wait.input = <<"a", "@", "b", ".", "c">>
    /\ wait.ret = InvalidEmail
    /\ wait.emails # {}
    /\ wait.sent # <<>>

\* C30: joinWaitlist is all-or-nothing: whenever it returns success = false
\* the waitlist_emails set and the count of getWaitlistCount are as before
\* the call, and the address is in the set after the call only if the call
\* returned success = true or the address was a member already.
C30_AllOrNothing ==
    JoinOver =>
        /\ wait.ret.success = FALSE =>
              /\ wait.emails = wait.before
              /\ GetWaitlistCount(wait.emails, TRUE)
                   = GetWaitlistCount(wait.before, TRUE)
        /\ wait.input \in wait.emails =>
              (wait.ret.success = TRUE \/ wait.input \in wait.before)

-----------------------------------------------------------------------------
(* Properties of the Searchbar *)

\* C25: for a burst of input changes less than debounceTime apart, onChange
\* is invoked exactly once, debounceTime after the last change and with the
\* last value, whatever re-renders (a new onChange or debounceTime included)
\* happen during the burst; the displayed value follows every change at once.
C25_OncePerBurstWithLastValue ==
    /\ \A k \in 1..Len(search.invoked) :
          /\ search.invoked[k].value = search.invoked[k].shown
          /\ search.invoked[k].since = search.invoked[k].due
          /\ search.invoked[k].nth = 1
    /\ (search.changes > 0 /\ Pending(search.debs) = {}) =>
          /\ search.invoked # <<>>
          /\ search.invoked[Len(search.invoked)].value = search.value
    /\ search.value = search.typed

-----------------------------------------------------------------------------
(* Specifications *)

\* the task dispatcher of one TurboSDK instance
Init ==
    /\ DispInit /\ RootOff /\ WsOff /\ TasksOff
    /\ CliOff /\ FlightOff /\ SearchOff /\ ApiOff /\ WaitOff

Next == DispNext

Spec == Init /\ [][Next]_vars

\* the task dispatcher of both variants of TurboSDK
NextVariants == DispNext \/ LibNext

SpecVariants == Init /\ [][NextVariants]_vars

\* two runTask calls on one instance, free to overlap
InitFlight ==
    /\ FlightInit /\ DispOff /\ RootOff /\ WsOff /\ TasksOff
    /\ CliOff /\ SearchOff /\ ApiOff /\ WaitOff

SpecFlight == InitFlight /\ [][FlightNext]_vars

\* one mounted Searchbar: changes, renders and timers
InitSearch ==
    /\ SearchInit /\ DispOff /\ RootOff /\ WsOff /\ TasksOff
    /\ CliOff /\ FlightOff /\ ApiOff /\ WaitOff

SpecSearch == InitSearch /\ [][SearchNext]_vars

\* the waitlist and calls of joinWaitlist, one after the other
InitWait ==
    /\ WaitInit /\ DispOff /\ RootOff /\ WsOff /\ TasksOff
    /\ CliOff /\ FlightOff /\ SearchOff /\ ApiOff

SpecWait == InitWait /\ [][WaitNext]_vars

\* the registry API server answering requests
InitApi ==
    /\ ApiInit /\ DispOff /\ RootOff /\ WsOff /\ TasksOff
    /\ CliOff /\ FlightOff /\ SearchOff /\ WaitOff

SpecApi == InitApi /\ [][ApiNext]_vars

\* one run of a command-line driver
InitCli ==
    /\ CliInit /\ DispInit /\ RootOff /\ WsOff /\ TasksOff
    /\ FlightOff /\ SearchOff /\ ApiOff /\ WaitOff

SpecCli == InitCli /\ [][CliNext]_vars

\* one root resolution
InitRoot ==
    /\ RootInit /\ DispOff /\ WsOff /\ TasksOff
    /\ CliOff /\ FlightOff /\ SearchOff /\ ApiOff /\ WaitOff

SpecRoot == InitRoot /\ [][RootNext]_vars

\* one workspace enumeration
InitWs ==
    /\ WsInit /\ DispOff /\ RootOff /\ TasksOff
    /\ CliOff /\ FlightOff /\ SearchOff /\ ApiOff /\ WaitOff

SpecWs == InitWs /\ [][WsNext]_vars

\* one listTasks, called directly or on what getWorkspaces returned
InitTasks ==
    /\ TasksInit /\ (WsOff \/ WsInit) /\ DispOff /\ RootOff
    /\ CliOff /\ FlightOff /\ SearchOff /\ ApiOff /\ WaitOff

SpecTasks == InitTasks /\ [][TasksNext]_vars

====
